---- MODULE Spec2Model ----
(***************************************************************************)
(* Model of the Navisworks viewpoint manager: the ViewpointItem tree, the   *)
(* source pool (source_views_by_guid) and the MainWindow handlers that      *)
(* change them (src/navisworks_viewpoint_manager_qt.py).                    *)
(*                                                                         *)
(* ViewpointItem objects live in an arena: a node is its index in the      *)
(* sequence `nodes`, so two objects with equal fields stay distinct, as    *)
(* Python's `is` and list.remove/`in` (identity for this class) require.   *)
(* Objects a handler detached from the tree stay in the arena until the    *)
(* next handler starts (Live): nothing references them any more.           *)
(*                                                                         *)
(* Strings (names, identifiers, query tokens) are sequences of one-letter  *)
(* strings. uuid.uuid4() values are modelled as identifiers that start     *)
(* with "#": they differ from each other and from every identifier read    *)
(* from a file.                                                            *)
(***************************************************************************)
EXTENDS Integers, Sequences, FiniteSets, TLC

VARIABLES
    nodes,                 \* the arena of ViewpointItem objects
    root_folder,           \* MainWindow.root_folder (an index of nodes)
    source_views_by_guid,  \* MainWindow.source_views_by_guid, in insertion order
    last,                  \* the last handler run and the numbers it logged
    steps                  \* how many handlers have run

vars == <<nodes, root_folder, source_views_by_guid, last, steps>>

\* ---------------------------------------------------------------- bounds
MaxNodes == 4
MaxBatch == 2
MaxSel == 2
MaxTokens == 2
MaxSteps == 2
MaxMatchViews == 2
MaxSortItems == 4
MaxExportItems == 2

\* Python's None, for ViewpointItem.parent and for "no node".
None == 0

\* A function on 1..n as the list it stands for.
AsSeq(f) == SubSeq(f, 1, Len(f))

\* ------------------------------------------------------------ characters
\* "^" stands for the superscript two (U+00B2), a letter beyond the ASCII ones.
Alphabet == <<" ", "#", "(", ")", "-", ".", "0", "1", "2", "3", "4", "5", "6", "7", "8", "9",
              "A", "B", "F", "R", "X", "Y", "Z", "_", "a", "b", "f", "n", "p", "r", "x", "y", "z",
              "^">>

\* Code-point order of the letters used (position in Alphabet).
Ord(c) == CHOOSE i \in 1..Len(Alphabet) : Alphabet[i] = c

IsDigit(c) == c \in {"0", "1", "2", "3", "4", "5", "6", "7", "8", "9"}

DigitVal(c) == Ord(c) - Ord("0")

\* str.isdigit() on one letter: the decimal digits, which \d matches too, and
\* letters such as the superscript two, which \d does not match and int()
\* does not read.
IsDigitStr(c) == IsDigit(c) \/ c = "^"

IsSpace(c) == c = " "

\* str.lower() on one letter.
LowerChar(c) ==
    CASE c = "A" -> "a" [] c = "B" -> "b" [] c = "F" -> "f"
      [] c = "R" -> "r" [] c = "X" -> "x" [] c = "Y" -> "y" [] c = "Z" -> "z" [] OTHER -> c

\* str.lower()
Lower(s) == AsSeq([i \in 1..Len(s) |-> LowerChar(s[i])])

\* s.replace('_', ' ').replace('-', ' ').replace('.', ' ')
ReplaceDelims(s) == AsSeq([i \in 1..Len(s) |-> IF s[i] \in {"_", "-", "."} THEN " " ELSE s[i]])

RECURSIVE SplitFrom(_, _, _)
\* str.split(): the maximal runs of non-whitespace letters, in order;
\* cur is the run being read, i the next position.
SplitFrom(s, i, cur) ==
    IF i > Len(s)
    THEN IF cur = <<>> THEN <<>> ELSE <<cur>>
    ELSE IF IsSpace(s[i])
         THEN (IF cur = <<>> THEN <<>> ELSE <<cur>>) \o SplitFrom(s, i + 1, <<>>)
         ELSE SplitFrom(s, i + 1, Append(cur, s[i]))

Split(s) == SplitFrom(s, 1, <<>>)

\* A faulty split of a name at blanks alone, not at underscore, hyphen and
\* period: C15 does not hold with it.
NamePartsAtBlanks(name_lower) == Split(name_lower)

\* The fragments of a lowercased name the name indexes add beside the name.
NameParts(name_lower) == Split(ReplaceDelims(name_lower))

RECURSIVE RStrip(_)
\* str.rstrip(), and the \\s* at the end of a pattern.
RStrip(s) == IF s # <<>> /\ IsSpace(s[Len(s)]) THEN RStrip(SubSeq(s, 1, Len(s) - 1)) ELSE s

RECURSIVE LStrip(_)
\* str.lstrip()
LStrip(s) == IF s # <<>> /\ IsSpace(s[1]) THEN LStrip(Tail(s)) ELSE s

\* str.strip()
Strip(s) == LStrip(RStrip(s))

RECURSIVE DropDigits(_)
\* s without the run of \\d letters at its end.
DropDigits(s) == IF s # <<>> /\ IsDigit(s[Len(s)]) THEN DropDigits(SubSeq(s, 1, Len(s) - 1)) ELSE s

\* re.sub(r'\\s*\\(\\d+\\)\\s*$', '', name): a name that ends with blanks, a
\* number in parentheses and blanks loses them; any other name stays.
SubCounter(name) ==
    LET t == RStrip(name)
        closed == t # <<>> /\ t[Len(t)] = ")"
        inner == IF closed THEN SubSeq(t, 1, Len(t) - 1) ELSE <<>>
        u == DropDigits(inner)
    IN  IF closed /\ Len(u) < Len(inner) /\ u # <<>> /\ u[Len(u)] = "("
        THEN RStrip(SubSeq(u, 1, Len(u) - 1))
        ELSE name

RECURSIVE StrLess(_, _)
\* Python's < on str: lexicographic by code point.
StrLess(s, t) ==
    IF t = <<>> THEN FALSE
    ELSE IF s = <<>> THEN TRUE
    ELSE IF Ord(s[1]) < Ord(t[1]) THEN TRUE
    ELSE IF Ord(s[1]) > Ord(t[1]) THEN FALSE
    ELSE StrLess(Tail(s), Tail(t))

\* ------------------------------------------------------------ ViewpointItem
\* ViewpointItem.__init__
ViewpointItem(name, guid, xml_content, is_folder, source_file) ==
    [name |-> name, guid |-> guid, xml_content |-> xml_content, is_folder |-> is_folder,
     source_file |-> source_file, children |-> <<>>, parent |-> None]

Range(s) == {s[i] : i \in 1..Len(s)}

\* list.remove(x): drops the first occurrence of x.
RemoveFirst(s, x) ==
    IF \E i \in 1..Len(s) : s[i] = x
    THEN LET k == CHOOSE i \in 1..Len(s) : s[i] = x /\ \A j \in 1..(i - 1) : s[j] # x
         IN  SubSeq(s, 1, k - 1) \o SubSeq(s, k + 1, Len(s))
    ELSE s

Contains(s, x) == \E i \in 1..Len(s) : s[i] = x

\* ViewpointItem.add_child (self = p)
add_child(ns, p, child) ==
    LET a == [ns EXCEPT ![child].parent = p]
    IN  [a EXCEPT ![p].children = Append(@, child)]

\* A faulty remove_child that clears the child's parent and leaves the list
\* of children as it is: C5 does not hold with it.
remove_child_keeps_entry(ns, p, child) ==
    IF Contains(ns[p].children, child) THEN [ns EXCEPT ![child].parent = None] ELSE ns

\* ViewpointItem.remove_child (self = p)
remove_child(ns, p, child) ==
    IF Contains(ns[p].children, child)
    THEN LET a == [ns EXCEPT ![p].children = RemoveFirst(@, child)]
         IN  [a EXCEPT ![child].parent = None]
    ELSE ns

\* A faulty find_by_guid that looks at the node alone and not below it: C1
\* does not hold with it.
find_by_guid_shallow(ns, n, guid) == IF ns[n].guid = guid THEN n ELSE None

RECURSIVE find_by_guid(_, _, _)
RECURSIVE find_in_children(_, _, _, _)
\* ViewpointItem.find_by_guid (self = n): first node in depth-first order.
find_by_guid(ns, n, guid) ==
    IF ns[n].guid = guid THEN n ELSE find_in_children(ns, ns[n].children, 1, guid)

\* The loop `for c in self.children` of find_by_guid.
find_in_children(ns, cs, i, guid) ==
    IF i > Len(cs) THEN None
    ELSE LET f == find_by_guid(ns, cs[i], guid)
         IN  IF f # None THEN f ELSE find_in_children(ns, cs, i + 1, guid)

RECURSIVE AncestorFrom(_, _, _, _)
\* The while loop of is_ancestor_of, fuel bounds the walk over a parent chain
\* that loops.
AncestorFrom(ns, self, cur, fuel) ==
    IF cur = None \/ fuel = 0 THEN FALSE
    ELSE IF cur = self THEN TRUE
    ELSE AncestorFrom(ns, self, ns[cur].parent, fuel - 1)

\* A faulty is_ancestor_of that never answers yes: C3 does not hold with it.
is_ancestor_of_never(ns, self, node) == FALSE

\* ViewpointItem.is_ancestor_of (self is on node's parent chain)
is_ancestor_of(ns, self, node) == AncestorFrom(ns, self, ns[node].parent, Len(ns))

\* A faulty iter_views that yields the node and the viewpoints among its
\* children, and does not go into the folders among them: C25 does not hold
\* with it.
iter_views_direct(ns, n) ==
    (IF ns[n].is_folder THEN <<>> ELSE <<n>>)
        \o SelectSeq(ns[n].children, LAMBDA c : ~ns[c].is_folder)

RECURSIVE iter_views(_, _)
RECURSIVE iter_views_children(_, _, _)
\* ViewpointItem.iter_views
iter_views(ns, n) ==
    (IF ns[n].is_folder THEN <<>> ELSE <<n>>) \o iter_views_children(ns, ns[n].children, 1)

iter_views_children(ns, cs, i) ==
    IF i > Len(cs) THEN <<>>
    ELSE iter_views(ns, cs[i]) \o iter_views_children(ns, cs, i + 1)

RECURSIVE Subtree(_, _)
RECURSIVE SubtreeChildren(_, _, _)
\* Every node below n and n itself, depth-first (the walk of refresh_trees.add_node).
Subtree(ns, n) == <<n>> \o SubtreeChildren(ns, ns[n].children, 1)

SubtreeChildren(ns, cs, i) ==
    IF i > Len(cs) THEN <<>>
    ELSE Subtree(ns, cs[i]) \o SubtreeChildren(ns, cs, i + 1)

\* A faulty _count_views that counts the viewpoints among the children of a
\* folder and not those further below: C19 does not hold with it.
_count_views_direct(ns, n) ==
    IF ~ns[n].is_folder THEN 1
    ELSE Cardinality({i \in 1..Len(ns[n].children) : ~ns[ns[n].children[i]].is_folder})

RECURSIVE _count_views(_, _)
RECURSIVE _count_views_children(_, _, _)
\* MainWindow._count_views
_count_views(ns, n) ==
    IF ~ns[n].is_folder THEN 1 ELSE _count_views_children(ns, ns[n].children, 1)

_count_views_children(ns, cs, i) ==
    IF i > Len(cs) THEN 0
    ELSE _count_views(ns, cs[i]) + _count_views_children(ns, cs, i + 1)

\* ------------------------------------------------------------ natural order
RECURSIVE IntOf(_, _)
\* int(p) of a run of digits, acc is the value read so far.
IntOf(p, acc) == IF p = <<>> THEN acc ELSE IntOf(Tail(p), 10 * acc + DigitVal(p[1]))

StrPart(s) == [isnum |-> FALSE, num |-> 0, str |-> Lower(s)]

NumPart(p) == [isnum |-> TRUE, num |-> IntOf(p, 0), str |-> <<>>]

RECURSIVE NaturalParts(_, _, _, _)
\* re.split(r'(\d+)', name) with each part turned into its key element: the
\* parts alternate text, digits, text, ..., and start and end with text.
NaturalParts(s, i, cur, inDigits) ==
    IF i > Len(s)
    THEN IF inDigits THEN <<NumPart(cur), StrPart(<<>>)>> ELSE <<StrPart(cur)>>
    ELSE IF IsDigit(s[i])
         THEN IF inDigits
              THEN NaturalParts(s, i + 1, Append(cur, s[i]), TRUE)
              ELSE <<StrPart(cur)>> \o NaturalParts(s, i + 1, <<s[i]>>, TRUE)
         ELSE IF inDigits
              THEN <<NumPart(cur)>> \o NaturalParts(s, i + 1, <<s[i]>>, FALSE)
              ELSE NaturalParts(s, i + 1, Append(cur, s[i]), FALSE)

\* MainWindow._natural_key, where it returns
_natural_key(name) == NaturalParts(name, 1, <<>>, FALSE)

\* Whether _natural_key raises ValueError: a part between the \d runs for
\* which p.isdigit() holds goes to int(p), which cannot read it.
NaturalKeyRaises(name) ==
    LET key == _natural_key(name)
    IN  \E i \in 1..Len(key) :
            /\ ~key[i].isnum
            /\ key[i].str # <<>>
            /\ \A m \in 1..Len(key[i].str) : IsDigitStr(key[i].str[m])

\* < on two elements of a natural key (int with int, str with str).
PartLess(a, b) == IF a.isnum /\ b.isnum THEN a.num < b.num ELSE StrLess(a.str, b.str)

RECURSIVE KeyLess(_, _)
\* Python's < on two lists: the first differing element decides, a proper
\* prefix is smaller.
KeyLess(k1, k2) ==
    IF k2 = <<>> THEN FALSE
    ELSE IF k1 = <<>> THEN TRUE
    ELSE IF PartLess(k1[1], k2[1]) THEN TRUE
    ELSE IF PartLess(k2[1], k1[1]) THEN FALSE
    ELSE KeyLess(Tail(k1), Tail(k2))

\* < on the sort key of the mode: the natural key of the name, or the lowercased
\* identifier in mode 'guid'.
ModeKeyLess(ns, mode, a, b) ==
    IF mode = "guid"
    THEN StrLess(Lower(ns[a].guid), Lower(ns[b].guid))
    ELSE KeyLess(_natural_key(ns[a].name), _natural_key(ns[b].name))

\* < on the keys of sort_folder: the tuple (x.is_folder, key), False < True.
FolderKeyLess(ns, mode, a, b) ==
    IF ns[a].is_folder # ns[b].is_folder
    THEN ns[b].is_folder
    ELSE ModeKeyLess(ns, mode, a, b)

\* Whether node a goes before node b when a stands after b in the list: list.sort
\* is stable, and with reverse=True it keeps the order of equal keys too.
GoesBefore(ns, mode, withKind, a, b) ==
    LET lt(x, y) == IF withKind THEN FolderKeyLess(ns, mode, x, y) ELSE ModeKeyLess(ns, mode, x, y)
    IN  IF mode = "nat_desc" THEN lt(b, a) ELSE lt(a, b)

RECURSIVE InsertSorted(_, _, _, _, _)
\* Puts x, which stood after every element of sorted, at its place.
InsertSorted(ns, mode, withKind, sorted, x) ==
    IF sorted = <<>> THEN <<x>>
    ELSE LET y == sorted[Len(sorted)]
         IN  IF GoesBefore(ns, mode, withKind, x, y)
             THEN Append(InsertSorted(ns, mode, withKind, SubSeq(sorted, 1, Len(sorted) - 1), x), y)
             ELSE Append(sorted, x)

RECURSIVE SortNodes(_, _, _, _)
\* list.sort / sorted with the key of the mode (a stable sort).
SortNodes(ns, mode, withKind, s) ==
    IF s = <<>> THEN <<>>
    ELSE InsertSorted(ns, mode, withKind,
                      SortNodes(ns, mode, withKind, SubSeq(s, 1, Len(s) - 1)), s[Len(s)])

\* --------------------------------------------------------------- XML input
\* el.get(attr, default) finds no attribute.
Absent == <<"absent">>

RECURSIVE Digits(_)
\* The decimal digits of k >= 0.
Digits(k) == IF k < 10 THEN <<Alphabet[Ord("0") + k]>> ELSE Append(Digits(k \div 10), Alphabet[Ord("0") + (k % 10)])

\* str(uuid.uuid4()) for a tree node: an identifier no object of the arena has.
UuidNode(ns) ==
    LET used(k) == \E n \in 1..Len(ns) : ns[n].guid = <<"#", "n">> \o Digits(k)
    IN  <<"#", "n">> \o Digits(CHOOSE k \in 1..(Len(ns) + 1) : ~used(k) /\ \A j \in 1..(k - 1) : used(j))

\* str(uuid.uuid4()) for a pool entry: an identifier no pool entry has.
UuidPool(pool) ==
    LET used(k) == \E n \in 1..Len(pool) : pool[n].guid = <<"#", "p">> \o Digits(k)
    IN  <<"#", "p">> \o Digits(CHOOSE k \in 1..(Len(pool) + 1) : ~used(k) /\ \A j \in 1..(k - 1) : used(j))

\* A <view> element: its name and guid attributes, the rest of it (body) and
\* the text that follows its end tag in the file (tail; "" for none or blanks).
ViewThenText(name, guid, body, tail) ==
    [tag |-> "view", name |-> name, guid |-> guid, body |-> body, kids |-> <<>>, tail |-> tail]

View(name, guid, body) == ViewThenText(name, guid, body, "")

\* A <viewfolder> element and the elements inside it.
ViewFolder(name, guid, kids) ==
    [tag |-> "viewfolder", name |-> name, guid |-> guid, body |-> "", kids |-> kids, tail |-> ""]

\* ET.tostring(el, encoding='unicode'): the element as read, attributes
\* included, and the text that follows it. The empty payload '' is <<>>.
ET_tostring(el) == <<[name |-> el.name, guid |-> el.guid, body |-> el.body, tail |-> el.tail]>>

\* Whether ET.fromstring(payload) raises ParseError: text after the end of
\* the element is junk after the document element.
ParseError(payload) == payload[1].tail # ""

\* Placeholder names: 'Папка', 'Точка' and defaults.unnamed_view.
DefaultFolderName == <<"F">>

DefaultViewName == <<"p">>

UnnamedView == <<"n">>

GetAttr(value, default) == IF value = Absent THEN default ELSE value

RECURSIVE _process_viewpoint_elements(_, _, _, _, _)
\* MainWindow._process_viewpoint_elements, from element i of elems on: every
\* folder and every view element becomes a new node under parent_item.
_process_viewpoint_elements(ns, elems, i, parent_item, source_file) ==
    IF i > Len(elems) THEN ns
    ELSE LET el == elems[i]
             k == Len(ns) + 1
         IN  IF el.tag = "viewfolder"
             THEN LET folder == ViewpointItem(GetAttr(el.name, DefaultFolderName),
                                              GetAttr(el.guid, UuidNode(ns)), <<>>, TRUE, source_file)
                      a == add_child(Append(ns, folder), parent_item, k)
                      b == _process_viewpoint_elements(a, el.kids, 1, k, source_file)
                  IN  _process_viewpoint_elements(b, elems, i + 1, parent_item, source_file)
             ELSE IF el.tag = "view"
             THEN LET vp == ViewpointItem(GetAttr(el.name, DefaultViewName),
                                          GetAttr(el.guid, UuidNode(ns)), ET_tostring(el), FALSE, source_file)
                      a == add_child(Append(ns, vp), parent_item, k)
                  IN  _process_viewpoint_elements(a, elems, i + 1, parent_item, source_file)
             ELSE _process_viewpoint_elements(ns, elems, i + 1, parent_item, source_file)

\* `guid in self.source_views_by_guid`
InPool(pool, guid) == \E j \in 1..Len(pool) : pool[j].guid = guid

\* self.source_views_by_guid.get(guid), None when there is none
PoolGet(pool, guid) == IF InPool(pool, guid) THEN CHOOSE j \in 1..Len(pool) : pool[j].guid = guid ELSE None

RECURSIVE LoadFlatLastWins(_, _, _, _)
\* A faulty pool loop that assigns source_views_by_guid[guid] for every view
\* element, so that the last one met stays: C7 does not hold with it.
LoadFlatLastWins(pool, elems, i, file_name) ==
    IF i > Len(elems) THEN pool
    ELSE LET ch == elems[i]
             guid == GetAttr(ch.guid, UuidPool(pool))
             vp == ViewpointItem(GetAttr(ch.name, UnnamedView), guid, ET_tostring(ch), FALSE, file_name)
         IN  IF ch.tag # "view" THEN LoadFlatLastWins(pool, elems, i + 1, file_name)
             ELSE IF InPool(pool, guid)
             THEN LoadFlatLastWins([pool EXCEPT ![PoolGet(pool, guid)] = vp], elems, i + 1, file_name)
             ELSE LoadFlatLastWins(Append(pool, vp), elems, i + 1, file_name)

RECURSIVE LoadFlat(_, _, _, _)
\* The loop of _load_xml_file over the container's children that fills the
\* source pool: a guid met before keeps its first entry.
LoadFlat(pool, elems, i, file_name) ==
    IF i > Len(elems) THEN pool
    ELSE LET ch == elems[i]
             guid == GetAttr(ch.guid, UuidPool(pool))
             vp == ViewpointItem(GetAttr(ch.name, UnnamedView), guid, ET_tostring(ch), FALSE, file_name)
         IN  IF ch.tag = "view" /\ ~InPool(pool, guid)
             THEN LoadFlat(Append(pool, vp), elems, i + 1, file_name)
             ELSE LoadFlat(pool, elems, i + 1, file_name)

\* MainWindow._load_xml_file on the state st = [ns, pool] with root folder root.
_load_xml_file(st, root, file) ==
    IF ~file.wellformed THEN st              \* ET.ParseError, caught
    ELSE IF ~file.has_container THEN st      \* viewpoints is None: return
    ELSE LET has_folders == \E i \in 1..Len(file.elems) : file.elems[i].tag = "viewfolder"
             has_views == \E i \in 1..Len(file.elems) : file.elems[i].tag = "view"
             ns1 == IF has_folders
                    THEN _process_viewpoint_elements(st.ns, file.elems, 1, root, file.name)
                    ELSE st.ns
             pool1 == IF has_views THEN LoadFlat(st.pool, file.elems, 1, file.name) ELSE st.pool
         IN  [ns |-> ns1, pool |-> pool1]

RECURSIVE load_xml_files_aborting(_, _, _, _)
\* A faulty load_xml_files without the try around _load_xml_file and with a
\* _load_xml_file that raises for a bad file: the first bad file ends the
\* batch. C9 does not hold with it.
load_xml_files_aborting(st, root, paths, i) ==
    IF i > Len(paths) THEN st
    ELSE IF ~paths[i].wellformed \/ ~paths[i].has_container THEN st
    ELSE load_xml_files_aborting(_load_xml_file(st, root, paths[i]), root, paths, i + 1)

RECURSIVE load_xml_files(_, _, _, _)
\* MainWindow.load_xml_files: the loop over the chosen paths.
load_xml_files(st, root, paths, i) ==
    IF i > Len(paths) THEN st
    ELSE load_xml_files(_load_xml_file(st, root, paths[i]), root, paths, i + 1)

\* ---------------------------------------------------------------- handlers
\* A faulty drop target that is the node dropped on, viewpoint or folder:
\* C24 does not hold with it.
DropTargetAsGiven(ns, root, target_model) ==
    IF target_model = None THEN root ELSE target_model

\* The first lines of both drop handlers: a drop on a viewpoint goes to its
\* parent, a drop on nothing goes to the root folder.
DropTarget(ns, root, target_model) ==
    LET t == IF target_model # None /\ ~ns[target_model].is_folder
             THEN ns[target_model].parent
             ELSE target_model
    IN  IF t = None THEN root ELSE t

RECURSIVE DropLoop(_, _, _, _, _, _)
\* The loop `for g in guids` of on_drop_from_left; r = [ns, added].
DropLoop(r, pool, root, guids, i, target) ==
    IF i > Len(guids) THEN r
    ELSE LET g == guids[i]
             src == PoolGet(pool, g)
             k == Len(r.ns) + 1
         IN  IF src = None THEN DropLoop(r, pool, root, guids, i + 1, target)
             ELSE IF find_by_guid(r.ns, root, g) # None
             THEN DropLoop(r, pool, root, guids, i + 1, target)
             ELSE LET clone == ViewpointItem(pool[src].name, pool[src].guid, pool[src].xml_content,
                                             FALSE, pool[src].source_file)
                      a == add_child(Append(r.ns, clone), target, k)
                  IN  DropLoop([ns |-> a, added |-> r.added + 1], pool, root, guids, i + 1, target)

\* MainWindow.on_drop_from_left
on_drop_from_left(ns, pool, root, guids, target_model) ==
    DropLoop([ns |-> ns, added |-> 0], pool, root, guids, 1, DropTarget(ns, root, target_model))

\* moving: the selected models other than the root folder.
Moving(root, selected) == SelectSeq(selected, LAMBDA m : m # root)

RECURSIVE MoveLoop(_, _, _, _)
\* The loop `for node in moving` of on_move_inside_right; r = [ns, moved].
MoveLoop(r, moving, i, target) ==
    IF i > Len(moving) THEN r
    ELSE LET node == moving[i]
         IN  IF node = target \/ is_ancestor_of(r.ns, node, target)
             THEN MoveLoop(r, moving, i + 1, target)
             ELSE LET a == IF r.ns[node].parent # None
                           THEN remove_child(r.ns, r.ns[node].parent, node)
                           ELSE r.ns
                      b == add_child(a, target, node)
                  IN  MoveLoop([ns |-> b, moved |-> r.moved + 1], moving, i + 1, target)

\* MainWindow.on_move_inside_right (selected = right_tree.selectedItems())
on_move_inside_right(ns, root, selected, target_model) ==
    MoveLoop([ns |-> ns, moved |-> 0], Moving(root, selected), 1, DropTarget(ns, root, target_model))

RECURSIVE PartsEntries(_, _, _, _)
\* What one item x adds under `key` for the fragments of its lowercased name.
PartsEntries(parts, name_lower, key, x) ==
    IF parts = <<>> THEN <<>>
    ELSE (IF parts[1] # name_lower /\ parts[1] = key THEN <<x>> ELSE <<>>)
         \o PartsEntries(Tail(parts), name_lower, key, x)

\* What one item x named `name` adds to the list the index keeps under `key`.
IndexEntries(name, key, x) ==
    LET name_lower == Lower(name)
    IN  (IF name_lower = key THEN <<x>> ELSE <<>>)
        \o PartsEntries(NameParts(name_lower), name_lower, key, x)

RECURSIVE IndexGet(_, _, _, _)
\* name_to_nodes.get(key, []) / source_by_name.get(key, []): items is the
\* sequence indexed (node indexes, or positions of the pool), objs their objects.
IndexGet(objs, items, i, key) ==
    IF i > Len(items) THEN <<>>
    ELSE IndexEntries(objs[items[i]].name, key, items[i]) \o IndexGet(objs, items, i + 1, key)

\* A faulty relocation that takes the node out and appends it to target even
\* when target is its parent already: C29 does not hold with it.
BulkPlaceAlways(r, node, target) ==
    LET a == IF r.ns[node].parent # None
             THEN remove_child(r.ns, r.ns[node].parent, node)
             ELSE r.ns
    IN  [r EXCEPT !.ns = add_child(a, target, node), !.moved = @ + 1]

\* Relocation of one node under target as bulk_move_points does it (both
\* branches); r = [ns, moved, already, missing].
BulkPlace(r, node, target) ==
    IF r.ns[node].parent = target
    THEN [r EXCEPT !.already = @ + 1]
    ELSE LET a == IF r.ns[node].parent # None
                  THEN remove_child(r.ns, r.ns[node].parent, node)
                  ELSE r.ns
         IN  [r EXCEPT !.ns = add_child(a, target, node), !.moved = @ + 1]

RECURSIVE BulkTreeLoop(_, _, _, _)
\* `for node in name_to_nodes.get(key, [])`
BulkTreeLoop(r, matches, i, target) ==
    IF i > Len(matches) THEN r
    ELSE BulkTreeLoop(BulkPlace(r, matches[i], target), matches, i + 1, target)

RECURSIVE BulkPoolLoopCloning(_, _, _, _, _, _)
\* A faulty pool loop that clones every matched pool entry without looking
\* for its guid in the tree: C11 does not hold with it.
BulkPoolLoopCloning(r, pool, root, found_src, i, target) ==
    IF i > Len(found_src) THEN r
    ELSE LET src == pool[found_src[i]]
             k == Len(r.ns) + 1
             clone == ViewpointItem(src.name, src.guid, src.xml_content, FALSE, <<>>)
             next == [r EXCEPT !.ns = add_child(Append(r.ns, clone), target, k),
                               !.moved = @ + 1]
         IN  BulkPoolLoopCloning(next, pool, root, found_src, i + 1, target)

RECURSIVE BulkPoolLoop(_, _, _, _, _, _)
\* `for src in found_src`: relocate the tree node that has the guid, or clone.
BulkPoolLoop(r, pool, root, found_src, i, target) ==
    IF i > Len(found_src) THEN r
    ELSE LET src == pool[found_src[i]]
             exist == find_by_guid(r.ns, root, src.guid)
             k == Len(r.ns) + 1
             clone == ViewpointItem(src.name, src.guid, src.xml_content, FALSE, <<>>)
             next == IF exist # None
                     THEN BulkPlace(r, exist, target)
                     ELSE [r EXCEPT !.ns = add_child(Append(r.ns, clone), target, k),
                                    !.moved = @ + 1]
         IN  BulkPoolLoop(next, pool, root, found_src, i + 1, target)

RECURSIVE BulkTokenLoop(_, _, _, _, _, _, _)
\* `for token in tokens`; views0 is structure_views, taken before the loop.
BulkTokenLoop(r, ns0, views0, pool, root, tokens, target) ==
    IF tokens = <<>> THEN r
    ELSE LET key == Lower(tokens[1])
             matches == IndexGet(ns0, views0, 1, key)
             found_src == IndexGet(pool, AsSeq([j \in 1..Len(pool) |-> j]), 1, key)
             next == IF matches # <<>> THEN BulkTreeLoop(r, matches, 1, target)
                     ELSE IF found_src # <<>> THEN BulkPoolLoop(r, pool, root, found_src, 1, target)
                     ELSE [r EXCEPT !.missing = Append(@, tokens[1])]
         IN  BulkTokenLoop(next, ns0, views0, pool, root, Tail(tokens), target)

\* _count_views(target) where target may have been put below itself: the
\* recursion then never ends and the handler raises (RecursionError).
Raised == -1

CountOrRaise(ns, n) == IF is_ancestor_of(ns, n, n) THEN Raised ELSE _count_views(ns, n)

\* MainWindow.bulk_move_points for a non-empty token list; the result holds
\* the new arena and the numbers of the log line.
bulk_move_points(ns, pool, root, tokens, target) ==
    LET r == BulkTokenLoop([ns |-> ns, moved |-> 0, already |-> 0, missing |-> <<>>],
                           ns, iter_views(ns, root), pool, root, tokens, target)
    IN  [ns |-> r.ns, moved |-> r.moved, already |-> r.already, missing |-> r.missing,
         before |-> _count_views(ns, target), after |-> CountOrRaise(r.ns, target)]

RECURSIVE SearchNames(_, _, _)
\* structure_names / source_names of search_points: the lowercased names of
\* the items and the fragments of those names.
SearchNames(objs, items, i) ==
    IF i > Len(items) THEN {}
    ELSE LET name_lower == Lower(objs[items[i]].name)
         IN  {name_lower} \cup Range(NameParts(name_lower)) \cup SearchNames(objs, items, i + 1)

\* A faulty search_points that also places what it finds under the root
\* folder, as bulk_move_points would: C13 does not hold with it.
search_points_placing(ns, pool, root, tokens) ==
    LET r == bulk_move_points(ns, pool, root, tokens, root)
    IN  [ns |-> IF tokens = <<>> THEN ns ELSE r.ns, pool |-> pool, not_found |-> r.missing,
         shown |-> IF tokens = <<>> THEN "cleared"
                   ELSE IF r.missing # <<>> THEN "not_found" ELSE "all_found"]

\* A faulty search_points that looks at the names of the tree alone: C14 does
\* not hold with it.
search_points_tree_only(ns, pool, root, tokens) ==
    LET structure_names == SearchNames(ns, iter_views(ns, root), 1)
        not_found == SelectSeq(tokens, LAMBDA t : Lower(t) \notin structure_names)
    IN  [ns |-> ns, pool |-> pool, not_found |-> not_found,
         shown |-> IF tokens = <<>> THEN "cleared"
                   ELSE IF not_found # <<>> THEN "not_found" ELSE "all_found"]

\* MainWindow.search_points: the state as the handler leaves it, the tokens
\* not found and what search_results shows (cleared for an empty line, the
\* list of the tokens not found, or the all-found text).
search_points(ns, pool, root, tokens) ==
    LET structure_names == SearchNames(ns, iter_views(ns, root), 1)
        source_names == SearchNames(pool, AsSeq([j \in 1..Len(pool) |-> j]), 1)
        not_found == SelectSeq(tokens, LAMBDA t : /\ Lower(t) \notin structure_names
                                                  /\ Lower(t) \notin source_names)
    IN  [ns |-> ns, pool |-> pool, not_found |-> not_found,
         shown |-> IF tokens = <<>> THEN "cleared"
                   ELSE IF not_found # <<>> THEN "not_found" ELSE "all_found"]

\* Whether sorting the nodes s in the mode raises: the key of a node is
\* computed before anything is moved, and the natural modes take the key from
\* _natural_key.
SortRaises(ns, mode, s) ==
    mode # "guid" /\ \E i \in 1..Len(s) : NaturalKeyRaises(ns[s[i]].name)

\* Whether sort_folder ends with the exception of the key function.
sort_folder_raises(ns, folder, mode) ==
    /\ folder # None
    /\ ns[folder].is_folder
    /\ SortRaises(ns, mode, ns[folder].children)

\* MainWindow.sort_folder; list.sort leaves the list as it was when the key
\* function raises.
sort_folder(ns, folder, mode) ==
    IF folder = None \/ ~ns[folder].is_folder THEN ns
    ELSE IF SortRaises(ns, mode, ns[folder].children) THEN ns
    ELSE [ns EXCEPT ![folder].children = SortNodes(ns, mode, TRUE, @)]

\* parent.children.index(ch)
IndexOf(s, x) == CHOOSE i \in 1..Len(s) : s[i] = x /\ \A j \in 1..(i - 1) : s[j] # x

\* sorted(indexes)
SortedInts(S) == 
    LET n == Cardinality(S)
    IN  CHOOSE q \in [1..n -> S] : \A i, j \in 1..n : i < j => q[i] < q[j]

\* The body of the loop over parent_to_children of sort_selected_points for
\* one parent: the selected children go, sorted, to the slots they held.
SortSelectedIn(ns, parent, children, mode) ==
    LET indexes == AsSeq([i \in 1..Len(children) |-> IndexOf(ns[parent].children, children[i])])
        slots == SortedInts(Range(indexes))
        sorted_sel == SortNodes(ns, mode, FALSE, children)
        n == IF Len(slots) < Len(sorted_sel) THEN Len(slots) ELSE Len(sorted_sel)
    IN  [ns EXCEPT ![parent].children =
            AsSeq([j \in 1..Len(@) |-> IF \E q \in 1..n : slots[q] = j
                                       THEN sorted_sel[CHOOSE q \in 1..n : slots[q] = j]
                                       ELSE @[j]])]

RECURSIVE SortSelectedLoop(_, _, _, _)
\* The loop over the parents of the selected viewpoints, in the order of the
\* dict parent_to_children (the order of first appearance in the selection).
SortSelectedLoop(ns, sel, parents, mode) ==
    IF parents = <<>> THEN ns
    ELSE LET p == parents[1]
             children == SelectSeq(sel, LAMBDA m : ns[m].parent = p)
             rest == SelectSeq(parents, LAMBDA q : q # p)
         IN  IF SortRaises(ns, mode, children) THEN ns   \* sorted() raises: the loop ends
             ELSE SortSelectedLoop(SortSelectedIn(ns, p, children, mode), sel, rest, mode)

\* Whether sort_selected_points ends with the exception of the key function.
sort_selected_points_raises(ns, selected, mode) ==
    SortRaises(ns, mode, SelectSeq(selected, LAMBDA m : ~ns[m].is_folder /\ ns[m].parent # None))

\* MainWindow.sort_selected_points
sort_selected_points(ns, selected, mode) ==
    LET sel == SelectSeq(selected, LAMBDA m : ~ns[m].is_folder /\ ns[m].parent # None)
    IN  SortSelectedLoop(ns, sel, AsSeq([i \in 1..Len(sel) |-> ns[sel[i]].parent]), mode)

\* parent_model of create_folder and folder_model of the sort menu: the first
\* selected model if it is a folder, else its parent; the root folder if none.
ContextFolder(ns, root, first) ==
    LET m == IF first = None THEN None
             ELSE IF ns[first].is_folder THEN first ELSE ns[first].parent
    IN  IF m = None THEN root ELSE m

\* MainWindow.create_folder once the dialog gave a non-empty name.
create_folder(ns, root, first, name) ==
    LET k == Len(ns) + 1
        new_folder == ViewpointItem(name, UuidNode(ns), <<>>, TRUE, <<>>)
    IN  add_child(Append(ns, new_folder), ContextFolder(ns, root, first), k)

RECURSIVE delete_selected(_, _, _)
\* MainWindow.delete_selected once the question was answered Yes.
delete_selected(ns, root, sel) ==
    IF sel = <<>> THEN ns
    ELSE LET m == sel[1]
             a == IF m = root THEN ns
                  ELSE IF ns[m].parent # None THEN remove_child(ns, ns[m].parent, m)
                  ELSE ns
         IN  delete_selected(a, root, Tail(sel))

\* cleaned_name of clean_folder_names.clean_node
cleaned_name(original_name) == Strip(SubCounter(original_name))

\* The nodes clean_node renames: the folders below the root folder whose
\* cleaned name differs from their name.
CleanedNodes(ns, root) ==
    {n \in Range(Subtree(ns, root)) :
        ns[n].is_folder /\ n # root /\ cleaned_name(ns[n].name) # ns[n].name}

\* MainWindow.clean_folder_names
clean_folder_names(ns, root) ==
    AsSeq([n \in 1..Len(ns) |->
              IF n \in CleanedNodes(ns, root)
              THEN [ns[n] EXCEPT !.name = cleaned_name(@)]
              ELSE ns[n]])

\* A faulty rename_selected that takes whatever the dialog returns, the empty
\* name too: C26 does not hold with it.
rename_selected_unchecked(ns, m, new_name, ok) == [ns EXCEPT ![m].name = new_name]

\* MainWindow.rename_selected: m is the first selected model.
rename_selected(ns, m, new_name, ok) ==
    IF ok /\ new_name # <<>> THEN [ns EXCEPT ![m].name = new_name] ELSE ns

RECURSIVE add_node_xml_dropping(_, _)
RECURSIVE add_children_xml_dropping(_, _, _)
\* A faulty add_node_xml without the except branch: a viewpoint whose payload
\* cannot be parsed gets no element. C20 does not hold with it.
add_node_xml_dropping(ns, node) ==
    IF ns[node].is_folder
    THEN <<[tag |-> "viewfolder",
            name |-> ns[node].name \o <<" ", "(">> \o Digits(_count_views(ns, node)) \o <<")">>,
            guid |-> ns[node].guid, body |-> "",
            kids |-> add_children_xml_dropping(ns, ns[node].children, 1)]>>
    ELSE IF ns[node].xml_content # <<>> /\ ~ParseError(ns[node].xml_content)
    THEN <<[tag |-> "view", name |-> ns[node].name, guid |-> ns[node].guid,
            body |-> ns[node].xml_content[1].body, kids |-> <<>>]>>
    ELSE <<>>

add_children_xml_dropping(ns, cs, i) ==
    IF i > Len(cs) THEN <<>>
    ELSE add_node_xml_dropping(ns, cs[i]) \o add_children_xml_dropping(ns, cs, i + 1)

RECURSIVE add_node_xml_as_read(_, _)
RECURSIVE add_children_xml_as_read(_, _, _)
\* A faulty add_node_xml that leaves a parsed view element the name and guid
\* it was read with: C22 does not hold with it.
add_node_xml_as_read(ns, node) ==
    IF ns[node].is_folder
    THEN <<[tag |-> "viewfolder",
            name |-> ns[node].name \o <<" ", "(">> \o Digits(_count_views(ns, node)) \o <<")">>,
            guid |-> ns[node].guid, body |-> "",
            kids |-> add_children_xml_as_read(ns, ns[node].children, 1)]>>
    ELSE IF ns[node].xml_content # <<>>
    THEN IF ParseError(ns[node].xml_content)
         THEN <<[tag |-> "view", name |-> ns[node].name, guid |-> ns[node].guid,
                 body |-> "", kids |-> <<>>]>>
         ELSE <<[tag |-> "view", name |-> ns[node].xml_content[1].name,
                 guid |-> ns[node].xml_content[1].guid,
                 body |-> ns[node].xml_content[1].body, kids |-> <<>>]>>
    ELSE <<>>

add_children_xml_as_read(ns, cs, i) ==
    IF i > Len(cs) THEN <<>>
    ELSE add_node_xml_as_read(ns, cs[i]) \o add_children_xml_as_read(ns, cs, i + 1)

RECURSIVE add_node_xml(_, _)
RECURSIVE add_children_xml(_, _, _)
\* _create_export_xml.add_node_xml: the elements the call appends to
\* parent_xml. An element written is its tag, its name and guid attributes,
\* the rest of it (body, "" for nothing) and the elements inside it.
add_node_xml(ns, node) ==
    IF ns[node].is_folder
    THEN <<[tag |-> "viewfolder",
            name |-> ns[node].name \o <<" ", "(">> \o Digits(_count_views(ns, node)) \o <<")">>,
            guid |-> ns[node].guid, body |-> "",
            kids |-> add_children_xml(ns, ns[node].children, 1)]>>
    ELSE IF ns[node].xml_content # <<>>
    THEN IF ParseError(ns[node].xml_content)
         THEN <<[tag |-> "view", name |-> ns[node].name, guid |-> ns[node].guid,
                 body |-> "", kids |-> <<>>]>>
         ELSE <<[tag |-> "view", name |-> ns[node].name, guid |-> ns[node].guid,
                 body |-> ns[node].xml_content[1].body, kids |-> <<>>]>>
    ELSE <<>>

\* `for c in node.children: add_node_xml(folder, c)`
add_children_xml(ns, cs, i) ==
    IF i > Len(cs) THEN <<>>
    ELSE add_node_xml(ns, cs[i]) \o add_children_xml(ns, cs, i + 1)

\* MainWindow._create_export_xml: the elements inside <viewpoints> in the
\* file written (the root folder itself is not written).
_create_export_xml(ns, root) == add_children_xml(ns, ns[root].children, 1)

\* Whether MainWindow.export_xml, once a path was chosen, writes a file: not,
\* after a warning, when the root folder has no children.
export_xml_writes(ns, root) == ns[root].children # <<>>

\* What MainWindow.export_xml writes.
export_xml(ns, root) ==
    IF export_xml_writes(ns, root) THEN _create_export_xml(ns, root) ELSE <<>>

RECURSIVE ParseWritten(_)
\* The elements ET.parse reads from a file _create_export_xml wrote: the
\* elements written, attributes and nesting as written; between them the
\* file has the blanks of toprettyxml only.
ParseWritten(els) ==
    AsSeq([i \in 1..Len(els) |->
              [tag |-> els[i].tag, name |-> els[i].name, guid |-> els[i].guid,
               body |-> els[i].body, kids |-> ParseWritten(els[i].kids), tail |-> ""]])

\* A root folder whose guid is one that files use, not a fresh uuid4: C6 does
\* not hold with it (bulk_move_points finds the root folder by that guid).
_create_root_folder_file_guid == ViewpointItem(<<"R">>, <<"x">>, <<>>, TRUE, <<>>)

\* MainWindow._create_root_folder ('Root' is data.root_folder)
_create_root_folder == ViewpointItem(<<"R">>, UuidNode(<<>>), <<>>, TRUE, <<>>)


\* ------------------------------------------------------------------ inputs
\* The files a session imports. wellformed: ET.parse succeeds; has_container:
\* root.find('.//viewpoints') finds the container, whose children are elems.
XmlFile(name, wellformed, has_container, elems) ==
    [name |-> name, wellformed |-> wellformed, has_container |-> has_container, elems |-> elems]

Files ==
    << \* 1: flat; both elements have the guid x
       XmlFile(<<"f", "1">>, TRUE, TRUE,
               <<View(<<"a">>, <<"x">>, "p1"), View(<<"b">>, <<"x">>, "p2")>>),
       \* 2: flat; the guid x again, from another file, and a second viewpoint
       XmlFile(<<"f", "2">>, TRUE, TRUE,
               <<View(<<"b">>, <<"x">>, "p3"), View(<<"a", "_", "b">>, <<"y">>, "p4")>>),
       \* 3: structured; the folder has the guid of the viewpoint x, and its two
       \*    viewpoints share the guid y; text follows the second one
       XmlFile(<<"f", "3">>, TRUE, TRUE,
               <<ViewFolder(<<"f">>, <<"x">>,
                            <<View(<<"b">>, <<"y">>, "p5"),
                              ViewThenText(<<"B">>, <<"y">>, "p6", "t")>>)>>),
       \* 4: structured and flat at once
       XmlFile(<<"f", "4">>, TRUE, TRUE,
               <<View(<<"b">>, <<"y">>, "p7"), ViewFolder(<<"F">>, <<"z">>, <<>>)>>),
       \* 5: not well-formed XML
       XmlFile(<<"f", "5">>, FALSE, TRUE,
               <<ViewFolder(<<"f">>, <<"z">>, <<>>), View(<<"b">>, <<"z">>, "p8")>>),
       \* 6: well-formed, no viewpoints container
       XmlFile(<<"f", "6">>, TRUE, FALSE,
               <<ViewFolder(<<"f">>, <<"z">>, <<>>), View(<<"b">>, <<"z">>, "p9")>>) >>

\* Sequences over S of length lo..hi.
SeqsOf(S, lo, hi) == UNION {[1..n -> S] : n \in lo..hi}

\* The paths one file dialog returns: numbers of distinct files, in any order.
Batches ==
    {q \in SeqsOf(1..Len(Files), 1, MaxBatch) : \A i, j \in 1..Len(q) : i # j => q[i] # q[j]}

PathsOf(batch) == AsSeq([i \in 1..Len(batch) |-> Files[batch[i]]])

\* Whether _load_xml_file logs an error line for the file and adds nothing.
IsBadFile(file) == ~file.wellformed \/ ~file.has_container

\* The number of error lines one import logs.
ErrorLines(paths) == Cardinality({i \in 1..Len(paths) : IsBadFile(paths[i])})

\* Names typed into the create-folder and rename dialogs.
DialogNames == {<<"f">>}

\* The words of one bulk-move line.
Tokens == {<<"a">>, <<"B">>, <<"z">>}

TokenLists == SeqsOf(Tokens, 1, MaxTokens)

\* The words of one search line, which may be empty.
SearchLists == SeqsOf(Tokens, 0, MaxTokens)

SortModes == {"nat_asc", "nat_desc", "guid"}

\* The nodes shown in the right tree: the root folder and everything below it.
Attached(ns, root) == Range(Subtree(ns, root))

\* right_tree.selectedItems(): distinct shown nodes, in any order.
Selections(ns, root) ==
    {q \in SeqsOf(Attached(ns, root), 1, MaxSel) : \A i, j \in 1..Len(q) : i # j => q[i] # q[j]}

\* The guids of one drag from the left tree.
Drags(pool) == SeqsOf({pool[j].guid : j \in 1..Len(pool)}, 1, MaxSel)

\* The folders of target_folder_combo.
ComboFolders(ns, root) == {n \in Attached(ns, root) : ns[n].is_folder}

\* ------------------------------------------------------------------- state
\* The objects still referenced once a handler has returned and refresh_trees
\* has rebuilt both trees and the folder combo from root_folder: the root folder
\* and what is below it. Collected drops the others and numbers the kept ones
\* in depth-first order (the root folder, first in that order, keeps number 1);
\* what a handler does depends on no object's address.
Collected(ns, root) ==
    LET order == Subtree(ns, root)
        pos(n) == IF Contains(order, n) THEN IndexOf(order, n) ELSE None
    IN  AsSeq([i \in 1..Len(order) |->
            [ns[order[i]] EXCEPT !.children = AsSeq([j \in 1..Len(@) |-> pos(@[j])]),
                                 !.parent = IF @ = None THEN None ELSE pos(@)]])


\* The arena the next handler finds: what the rebuilt trees still show.
Live == Collected(nodes, root_folder)

\* The numbers of the handler's log lines (0 and <<>> where it logs none);
\* for an import, the number of paths and the number of error lines; for an
\* export, the number of files written; for a
\* search, what search_results shows; raised: the handler ended with an
\* exception and logged nothing; out: what an export wrote.
NoResult ==
    [op |-> "init", moved |-> 0, already |-> 0, missing |-> <<>>, before |-> 0, after |-> 0,
     files |-> 0, errors |-> 0, shown |-> "", raised |-> FALSE, out |-> <<>>]

Init ==
    /\ nodes = <<_create_root_folder>>
    /\ root_folder = 1
    /\ source_views_by_guid = <<>>
    /\ last = NoResult
    /\ steps = 0

\* Every handler starts from Live and leaves its result, the objects it
\* dropped included, in nodes.
LoadXmlFiles ==
    LET live == Live
    IN  \E batch \in Batches :
            LET r == load_xml_files([ns |-> live, pool |-> source_views_by_guid], root_folder,
                                    PathsOf(batch), 1)
            IN  /\ Len(r.ns) <= MaxNodes
                /\ nodes' = r.ns
                /\ source_views_by_guid' = r.pool
                /\ last' = [NoResult EXCEPT !.op = "import", !.files = Len(batch),
                                            !.errors = ErrorLines(PathsOf(batch))]
                /\ UNCHANGED root_folder

CreateFolder ==
    LET live == Live
    IN  \E first \in Attached(live, root_folder) \cup {None}, name \in DialogNames :
            /\ Len(live) < MaxNodes
            /\ nodes' = create_folder(live, root_folder, first, name)
            /\ last' = [NoResult EXCEPT !.op = "create_folder"]
            /\ UNCHANGED <<root_folder, source_views_by_guid>>

DropFromLeft ==
    LET live == Live
    IN  \E guids \in Drags(source_views_by_guid), t \in Attached(live, root_folder) \cup {None} :
            LET r == on_drop_from_left(live, source_views_by_guid, root_folder, guids, t)
            IN  /\ Len(r.ns) <= MaxNodes
                /\ nodes' = r.ns
                /\ last' = [NoResult EXCEPT !.op = "drop", !.moved = r.added]
                /\ UNCHANGED <<root_folder, source_views_by_guid>>

MoveInsideRight ==
    LET live == Live
    IN  \E sel \in Selections(live, root_folder), t \in Attached(live, root_folder) \cup {None} :
            LET r == on_move_inside_right(live, root_folder, sel, t)
            IN  /\ nodes' = r.ns
                /\ last' = [NoResult EXCEPT !.op = "move", !.moved = r.moved]
                /\ UNCHANGED <<root_folder, source_views_by_guid>>

BulkMovePoints ==
    LET live == Live
    IN  \E tokens \in TokenLists, target \in ComboFolders(live, root_folder) :
            LET r == bulk_move_points(live, source_views_by_guid, root_folder, tokens, target)
            IN  /\ Len(r.ns) <= MaxNodes
                /\ nodes' = r.ns
                /\ last' = [NoResult EXCEPT !.op = "bulk", !.moved = r.moved,
                                            !.already = r.already, !.missing = r.missing,
                                            !.before = r.before, !.after = r.after]
                /\ UNCHANGED <<root_folder, source_views_by_guid>>

SearchPoints ==
    LET live == Live
    IN  \E tokens \in SearchLists :
            LET r == search_points(live, source_views_by_guid, root_folder, tokens)
            IN  /\ nodes' = r.ns
                /\ source_views_by_guid' = r.pool
                /\ last' = [NoResult EXCEPT !.op = "search", !.missing = r.not_found,
                                            !.shown = r.shown]
                /\ UNCHANGED root_folder

SortFolder ==
    LET live == Live
    IN  \E first \in Attached(live, root_folder) \cup {None}, mode \in SortModes :
            /\ nodes' = sort_folder(live, ContextFolder(live, root_folder, first), mode)
            /\ last' = [NoResult EXCEPT !.op = "sort_folder",
                                        !.raised = sort_folder_raises(
                                            live, ContextFolder(live, root_folder, first), mode)]
            /\ UNCHANGED <<root_folder, source_views_by_guid>>

SortSelectedPoints ==
    LET live == Live
    IN  \E sel \in Selections(live, root_folder), mode \in SortModes :
            /\ nodes' = sort_selected_points(live, sel, mode)
            /\ last' = [NoResult EXCEPT !.op = "sort_selected",
                                        !.raised = sort_selected_points_raises(live, sel, mode)]
            /\ UNCHANGED <<root_folder, source_views_by_guid>>

RenameSelected ==
    LET live == Live
    IN  \E m \in Attached(live, root_folder), name \in DialogNames \cup {<<>>} :
            /\ nodes' = rename_selected(live, m, name, TRUE)
            /\ last' = [NoResult EXCEPT !.op = "rename"]
            /\ UNCHANGED <<root_folder, source_views_by_guid>>

DeleteSelected ==
    LET live == Live
    IN  \E sel \in Selections(live, root_folder) :
            /\ nodes' = delete_selected(live, root_folder, sel)
            /\ last' = [NoResult EXCEPT !.op = "delete"]
            /\ UNCHANGED <<root_folder, source_views_by_guid>>

ExportXml ==
    LET live == Live
    IN  /\ nodes' = live
        /\ last' = [NoResult EXCEPT !.op = "export",
                                    !.files = IF export_xml_writes(live, root_folder) THEN 1 ELSE 0,
                                    !.out = export_xml(live, root_folder)]
        /\ UNCHANGED <<root_folder, source_views_by_guid>>

\* clean_folder_names; moved holds cleaned_count.
CleanFolderNames ==
    LET live == Live
    IN  /\ nodes' = clean_folder_names(live, root_folder)
        /\ last' = [NoResult EXCEPT !.op = "clean",
                                    !.moved = Cardinality(CleanedNodes(live, root_folder))]
        /\ UNCHANGED <<root_folder, source_views_by_guid>>

\* A faulty clear_all_data that makes a new root folder and leaves the source
\* pool as it is: C23 does not hold with it.
ClearAllDataKeepingPool ==
    /\ nodes' = <<_create_root_folder>>
    /\ root_folder' = 1
    /\ source_views_by_guid' = source_views_by_guid
    /\ last' = [NoResult EXCEPT !.op = "clear"]

\* MainWindow.clear_all_data: a new root folder, an empty pool; no object of
\* the old tree is referenced any more.
ClearAllData ==
    /\ nodes' = <<_create_root_folder>>
    /\ root_folder' = 1
    /\ source_views_by_guid' = <<>>
    /\ last' = [NoResult EXCEPT !.op = "clear"]

\* One more handler runs, while the session is within its bound.
Tick == steps < MaxSteps /\ steps' = steps + 1

Next ==
    \/ Tick /\ LoadXmlFiles
    \/ Tick /\ CreateFolder
    \/ Tick /\ DropFromLeft
    \/ Tick /\ MoveInsideRight
    \/ Tick /\ BulkMovePoints
    \/ Tick /\ SearchPoints
    \/ Tick /\ SortFolder
    \/ Tick /\ SortSelectedPoints
    \/ Tick /\ RenameSelected
    \/ Tick /\ DeleteSelected
    \/ Tick /\ ExportXml
    \/ Tick /\ CleanFolderNames
    \/ Tick /\ ClearAllData

Spec == Init /\ [][Next]_vars

\* ------------------------------------------------- name matching, on its own
\* bulk_move_points and search_points as functions of the names they meet: a
\* session that has imported one structured and one flat file whose
\* viewpoints carry the names below, and then runs one of the two.
MatchViews ==
    << View(<<"X", "Y", "Z", "_", "2", "1", "3">>, <<"x">>, "m1"),
       View(<<"a", "_", "a">>, <<"y">>, "m2"),
       View(<<"b", "-", "2", "1", ".", "x", " ", "Y">>, <<"z">>, "m3") >>

\* The views of a file: numbers of distinct MatchViews, in any order.
MatchChoices(hi) ==
    {q \in SeqsOf(1..Len(MatchViews), 0, hi) : \A i, j \in 1..Len(q) : i # j => q[i] # q[j]}

ViewsOf(choice) == AsSeq([i \in 1..Len(choice) |-> MatchViews[choice[i]]])

\* The structured file: an empty folder B and a folder F with the views.
MatchTreeFile(choice) ==
    XmlFile(<<"f", "1">>, TRUE, TRUE,
            <<ViewFolder(<<"B">>, <<"#", "1">>, <<>>),
              ViewFolder(<<"F">>, <<"#", "2">>, ViewsOf(choice))>>)

\* The flat file.
MatchPoolFile(choice) == XmlFile(<<"f", "2">>, TRUE, TRUE, ViewsOf(choice))

\* The words typed into the bulk-move and search lines.
MatchTokens ==
    {<<"2", "1", "3">>, <<"x", "y", "z">>, <<"X", "y", "z", "_", "2", "1", "3">>,
     <<"2", "1">>, <<"A">>, <<"y">>}

MatchTokenLists == SeqsOf(MatchTokens, 1, MaxTokens)

MatchInit ==
    /\ root_folder = 1
    /\ \E tree \in MatchChoices(MaxMatchViews), pool \in MatchChoices(1) :
            LET st == load_xml_files([ns |-> <<_create_root_folder>>, pool |-> <<>>], 1,
                                     <<MatchTreeFile(tree), MatchPoolFile(pool)>>, 1)
            IN  /\ nodes = st.ns
                /\ source_views_by_guid = st.pool
    /\ last = [NoResult EXCEPT !.op = "import", !.files = 2]
    /\ steps = 0

\* bulk_move_points on the words of MatchTokens.
BulkMoveNamed ==
    LET live == Live
    IN  \E tokens \in MatchTokenLists, target \in ComboFolders(live, root_folder) :
            LET r == bulk_move_points(live, source_views_by_guid, root_folder, tokens, target)
            IN  /\ nodes' = r.ns
                /\ last' = [NoResult EXCEPT !.op = "bulk", !.moved = r.moved,
                                            !.already = r.already, !.missing = r.missing,
                                            !.before = r.before, !.after = r.after]
                /\ UNCHANGED <<root_folder, source_views_by_guid>>

\* search_points on the words of MatchTokens.
SearchNamed ==
    LET live == Live
    IN  \E tokens \in MatchTokenLists :
            LET r == search_points(live, source_views_by_guid, root_folder, tokens)
            IN  /\ nodes' = r.ns
                /\ source_views_by_guid' = r.pool
                /\ last' = [NoResult EXCEPT !.op = "search", !.missing = r.not_found,
                                            !.shown = r.shown]
                /\ UNCHANGED root_folder

\* The one handler run of the session after the import.
Once == steps = 0 /\ steps' = 1

MatchNext ==
    \/ Once /\ BulkMoveNamed
    \/ Once /\ SearchNamed

MatchSpec == MatchInit /\ [][MatchNext]_vars

\* -------------------------------------------------------- sorting, on its own
\* sort_folder and sort_selected_points as functions of the names and guids
\* they meet: a session that has imported one structured file, a folder F
\* with some of the elements below in some order, and then sorts once.
SortElements ==
    << View(<<"x", "2">>, <<"b">>, "s1"),
       View(<<"x", "1", "0">>, <<"a">>, "s2"),
       View(<<"X", "1">>, <<"Z">>, "s3"),
       View(<<"1", "0", "^">>, <<"y">>, "s4"),
       ViewFolder(<<"f", "2">>, <<"B">>, <<>>),
       ViewFolder(<<"F", "1", "0">>, <<"A">>, <<>>) >>

\* The elements of the folder: numbers of distinct SortElements, in any order.
SortChoices ==
    {q \in SeqsOf(1..Len(SortElements), 1, MaxSortItems) :
        \A i, j \in 1..Len(q) : i # j => q[i] # q[j]}

SortFile(choice) ==
    XmlFile(<<"f", "1">>, TRUE, TRUE,
            <<ViewFolder(<<"F">>, <<"#", "1">>,
                         AsSeq([i \in 1..Len(choice) |-> SortElements[choice[i]]]))>>)

SortInit ==
    /\ root_folder = 1
    /\ \E choice \in SortChoices :
            LET st == load_xml_files([ns |-> <<_create_root_folder>>, pool |-> <<>>], 1,
                                     <<SortFile(choice)>>, 1)
            IN  /\ nodes = st.ns
                /\ source_views_by_guid = st.pool
    /\ last = [NoResult EXCEPT !.op = "import", !.files = 1]
    /\ steps = 0

SortNext ==
    \/ Once /\ SortFolder
    \/ Once /\ SortSelectedPoints

SortSpec == SortInit /\ [][SortNext]_vars

\* ---------------------------------------------------------- export, on its own
\* export_xml as a function of the tree: a session that has imported one file
\* with some of the elements below in some order, may rename or delete once,
\* and exports.
ExportElements ==
    << View(<<"a">>, <<"x">>, "e1"),
       ViewThenText(<<"b">>, <<"y">>, "e2", "t"),
       \* three viewpoints two levels deep
       ViewFolder(<<"f">>, <<"z">>,
                  <<ViewFolder(<<"B">>, <<"A">>,
                               <<View(<<"x", "1">>, <<"a">>, "e3"),
                                 ViewThenText(<<"x", "2">>, <<"b">>, "e4", "t"),
                                 View(<<"x", "3">>, <<"X">>, "e5")>>)>>),
       \* a folder with nothing in it
       ViewFolder(<<"F">>, <<"Z">>, <<>>) >>

\* The elements of the file: numbers of distinct ExportElements, in any order.
ExportChoices ==
    {q \in SeqsOf(1..Len(ExportElements), 1, MaxExportItems) :
        \A i, j \in 1..Len(q) : i # j => q[i] # q[j]}

ExportFile(choice) ==
    XmlFile(<<"f", "1">>, TRUE, TRUE, AsSeq([i \in 1..Len(choice) |-> ExportElements[choice[i]]]))

ExportInit ==
    /\ root_folder = 1
    /\ \E choice \in ExportChoices :
            LET st == load_xml_files([ns |-> <<_create_root_folder>>, pool |-> <<>>], 1,
                                     <<ExportFile(choice)>>, 1)
            IN  /\ nodes = st.ns
                /\ source_views_by_guid = st.pool
    /\ last = [NoResult EXCEPT !.op = "import", !.files = 1]
    /\ steps = 0

\* The export, as the first or the second handler run after the import.
Then == steps <= 1 /\ steps' = 2

ExportNext ==
    \/ Once /\ RenameSelected
    \/ Once /\ DeleteSelected
    \/ Then /\ ExportXml

ExportSpec == ExportInit /\ [][ExportNext]_vars

\* ------------------------------------------------------- clear-all, on its own
\* clear_all_data in the middle of a session: file 1, alone or with another
\* file, has been imported (the pool entry x is the viewpoint a of file 1);
\* one handler may run; then everything is cleared and one more handler runs.
ClearInit ==
    /\ root_folder = 1
    /\ \E batch \in {b \in Batches : b[1] = 1} :
            LET st == load_xml_files([ns |-> <<_create_root_folder>>, pool |-> <<>>], 1,
                                     PathsOf(batch), 1)
            IN  /\ nodes = st.ns
                /\ source_views_by_guid = st.pool
                /\ last = [NoResult EXCEPT !.op = "import", !.files = Len(batch),
                                           !.errors = ErrorLines(PathsOf(batch))]
    /\ steps = 0

\* The handler run after the clear-all.
Last == steps = 2 /\ steps' = 3

ClearNext ==
    \/ Once /\ DropFromLeft
    \/ Once /\ BulkMovePoints
    \/ Once /\ CreateFolder
    \/ Once /\ DeleteSelected
    \/ Then /\ ClearAllData
    \/ Last /\ LoadXmlFiles
    \/ Last /\ CreateFolder
    \/ Last /\ BulkMovePoints
    \/ Last /\ SearchPoints
    \/ Last /\ MoveInsideRight
    \/ Last /\ RenameSelected
    \/ Last /\ ExportXml

ClearSpec == ClearInit /\ [][ClearNext]_vars

\* ------------------------------------------------- counter clean-up, on its own
\* clean_folder_names as a function of the folder names: a session that has
\* imported one file with some of the elements below, exports, imports the
\* file it wrote and cleans the names, once and once more.
MaxCleanItems == 2

CleanElements ==
    << ViewFolder(<<"f">>, <<"z">>, <<View(<<"a", " ", "(", "2", ")">>, <<"x">>, "c1")>>),
       \* a name that starts with a blank
       ViewFolder(<<" ", "f">>, <<"Z">>, <<>>),
       \* a name that ends with a number in parentheses, and a folder inside
       ViewFolder(<<"f", " ", "(", "1", ")">>, <<"A">>, <<ViewFolder(<<"F">>, <<"B">>, <<>>)>>),
       \* a name that ends with a blank
       ViewFolder(<<"f", " ">>, <<"Y">>, <<>>),
       \* a number in parentheses inside the name
       ViewFolder(<<"f", "(", "7", ")", "x">>, <<"X">>, <<>>),
       View(<<"b">>, <<"y">>, "c2") >>

\* The elements of the file: numbers of distinct CleanElements, in any order.
CleanChoices ==
    {q \in SeqsOf(1..Len(CleanElements), 1, MaxCleanItems) :
        \A i, j \in 1..Len(q) : i # j => q[i] # q[j]}

CleanFile(choice) ==
    XmlFile(<<"f", "1">>, TRUE, TRUE, AsSeq([i \in 1..Len(choice) |-> CleanElements[choice[i]]]))

\* The file an export wrote, as the import reads it.
ExportedFile(out) == XmlFile(<<"f", "2">>, TRUE, TRUE, ParseWritten(out))

CleanInit ==
    /\ root_folder = 1
    /\ \E choice \in CleanChoices :
            LET st == load_xml_files([ns |-> <<_create_root_folder>>, pool |-> <<>>], 1,
                                     <<CleanFile(choice)>>, 1)
            IN  /\ nodes = st.ns
                /\ source_views_by_guid = st.pool
    /\ last = [NoResult EXCEPT !.op = "import", !.files = 1]
    /\ steps = 0

\* load_xml_files on the file the export before it wrote.
LoadExported ==
    LET live == Live
    IN  /\ last.op = "export"
        /\ last.files = 1
        /\ LET r == load_xml_files([ns |-> live, pool |-> source_views_by_guid], root_folder,
                                   <<ExportedFile(last.out)>>, 1)
           IN  /\ nodes' = r.ns
               /\ source_views_by_guid' = r.pool
        /\ last' = [NoResult EXCEPT !.op = "import", !.files = 1]
        /\ UNCHANGED root_folder

\* The second clean-up.
Again == steps = 3 /\ steps' = 4

CleanNext ==
    \/ Once /\ ExportXml
    \/ Once /\ CleanFolderNames
    \/ Then /\ LoadExported
    \/ Last /\ CleanFolderNames
    \/ Again /\ CleanFolderNames

CleanSpec == CleanInit /\ [][CleanNext]_vars

\* ------------------------------------------------------------------ properties
\* No two nodes of the tree below root share a guid.
NoDupGuids(ns, root) ==
    \A a, b \in Attached(ns, root) : a # b => ns[a].guid # ns[b].guid

\* The pool as a set of guids.
PoolGuids == {source_views_by_guid[j].guid : j \in 1..Len(source_views_by_guid)}

\* The folders of the tree other than the root folder.
SubFolders(ns, root) == {n \in Attached(ns, root) : n # root /\ ns[n].is_folder}

\* C1: a move inside the tree, a drop from the pool or a bulk move that starts
\* from a tree without duplicate guids leaves a tree without duplicate guids.
\* The guid lists and token lists of the model are closed under prefixes, so the
\* state after each element of a list is covered as the result of the shorter list.
C1_MoveCloneBulkKeepGuidsUnique ==
    [][(last'.op \in {"move", "drop", "bulk"} /\ NoDupGuids(Live, root_folder))
        => NoDupGuids(nodes', root_folder')]_vars

\* A bulk move whose token list named one pool viewpoint twice: cloned once,
\* then found in place, in a tree that holds each guid once.
C1_Witness ==
    /\ last.op = "bulk" /\ last.moved = 1 /\ last.already = 1
    /\ NoDupGuids(nodes, root_folder)
    /\ \E n \in Attached(nodes, root_folder) : ~nodes[n].is_folder /\ nodes[n].guid \in PoolGuids

\* C2: after an import the tree holds at most one node per guid.
C2_ImportKeepsGuidsUnique == last.op = "import" => NoDupGuids(nodes, root_folder)

\* C3: moving a folder F alone onto a target that resolves to F or to a node
\* below F changes nothing and counts nothing as moved.
C3_MoveOntoOwnSubtreeIsNoOp ==
    LET live == Live
    IN  \A F \in SubFolders(live, root_folder), T \in Attached(live, root_folder) :
            LET t == DropTarget(live, root_folder, T)
            IN  Contains(Subtree(live, F), t)
                    => on_move_inside_right(live, root_folder, <<F>>, T) = [ns |-> live, moved |-> 0]

\* A move that moved nothing, in a tree that has a folder with a node below it.
C3_Witness ==
    /\ last.op = "move" /\ last.moved = 0
    /\ \E F \in SubFolders(nodes, root_folder) : nodes[F].children # <<>>

\* C4: no node is on its own parent chain.
C4_NoNodeBelowItself == \A n \in 1..Len(nodes) : ~is_ancestor_of(nodes, n, n)

\* The positions <<p, i>> at which node n stands in a children sequence.
Places(ns, n) == {<<p, i>> \in (1..Len(ns)) \X (1..Len(ns)) : i <= Len(ns[p].children) /\ ns[p].children[i] = n}

\* C5: every node of the tree but the root stands at exactly one place of one
\* children sequence, the one of the node its parent reference names.
C5_ParentAndChildrenAgree ==
    \A n \in Attached(nodes, root_folder) \ {root_folder} :
        /\ Cardinality(Places(nodes, n)) = 1
        /\ \A pl \in Places(nodes, n) : pl[1] = nodes[n].parent

\* A move of two selected nodes that left a folder with a child beside one of
\* its former children: the selection held a folder and a node below it.
C5_Witness ==
    /\ last.op = "move" /\ last.moved = 2
    /\ \E F \in SubFolders(nodes, root_folder), v \in Attached(nodes, root_folder) :
          /\ nodes[F].children # <<>>
          /\ ~nodes[v].is_folder
          /\ nodes[v].parent = nodes[F].parent
          /\ \E w \in Range(nodes[F].children) : nodes[w].source_file = nodes[v].source_file

\* C6: the root folder is the folder made at construction (or by the last
\* clear-all): a folder without parent that stands in no children sequence.
C6_RootFolderStays ==
    /\ root_folder = 1
    /\ nodes[root_folder].is_folder
    /\ nodes[root_folder].guid = _create_root_folder.guid
    /\ nodes[root_folder].parent = None
    /\ Places(nodes, root_folder) = {}

\* A delete that removed nodes from the tree, a move and a bulk move that
\* relocated nodes: the root folder is still in place.
C6_Witness ==
    /\ last.op \in {"delete", "move", "bulk"}
    /\ \/ last.op = "delete" /\ Len(nodes) > Cardinality(Attached(nodes, root_folder))
       \/ last.moved > 0
    /\ nodes[root_folder].children # <<>>

\* C7: unless the step is a clear-all, every pool entry stays what it is, at
\* its place; an import can only add entries after them.
C7_FirstImportWins ==
    [][last'.op # "clear"
        => /\ Len(source_views_by_guid') >= Len(source_views_by_guid)
           /\ \A j \in 1..Len(source_views_by_guid) :
                 source_views_by_guid'[j] = source_views_by_guid[j]]_vars

\* The pool after file 1 and then file 2 were imported: x is the first element
\* of file 1, though file 1 and file 2 hold x again; y came from file 2.
C7_Witness ==
    /\ last.op = "import"
    /\ Len(source_views_by_guid) = 2
    /\ source_views_by_guid[1].guid = <<"x">>
    /\ source_views_by_guid[1].name = <<"a">>
    /\ source_views_by_guid[1].xml_content[1].body = "p1"
    /\ source_views_by_guid[1].source_file = <<"f", "1">>
    /\ source_views_by_guid[2].source_file = <<"f", "2">>

\* C8: an import attaches no viewpoint directly under the root folder: the
\* view elements directly under the container go to the pool only.
C8_DirectViewsGoToPoolOnly ==
    [][last'.op = "import"
        => \A n \in (Len(Live) + 1)..Len(nodes') :
              nodes'[n].parent = root_folder' => nodes'[n].is_folder]_vars

\* The files of a batch that are well-formed and have the container.
GoodOnly(paths) == SelectSeq(paths, LAMBDA f : ~IsBadFile(f))

\* C9: a bad file leaves tree and pool as they are, and a batch gives what
\* its good files alone give, in the same order.
C9_BadFileContributesNothing ==
    LET st == [ns |-> Live, pool |-> source_views_by_guid]
    IN  /\ \A k \in 1..Len(Files) :
              IsBadFile(Files[k]) => _load_xml_file(st, root_folder, Files[k]) = st
        /\ \A batch \in Batches :
              load_xml_files(st, root_folder, PathsOf(batch), 1)
                  = load_xml_files(st, root_folder, GoodOnly(PathsOf(batch)), 1)

\* An import of two files, one of them bad, that filled tree or pool.
C9_Witness ==
    /\ last.op = "import" /\ last.files = 2 /\ last.errors = 1
    /\ Len(nodes) + Len(source_views_by_guid) > 1

\* C10: a second bulk move with the same tokens and the same target, which the
\* first run left in the tree, moves nothing and leaves the tree and the
\* target's viewpoint count as the first run left them.
C10_SecondBulkMoveMovesNothing ==
    LET live == Live
    IN  \A tokens \in TokenLists, target \in ComboFolders(live, root_folder) :
            LET r1 == bulk_move_points(live, source_views_by_guid, root_folder, tokens, target)
                r2 == bulk_move_points(r1.ns, source_views_by_guid, root_folder, tokens, target)
            IN  target \in Attached(r1.ns, root_folder)
                    => /\ r2.moved = 0
                       /\ r2.ns = r1.ns
                       /\ r2.after = r1.after

\* The tree nodes below root that have the guid.
WithGuid(ns, root, guid) == {n \in Attached(ns, root) : ns[n].guid = guid}

\* What the pool branch owes one matched pool entry src, r being the arena and
\* the counts before the entry and q after it: a tree node that has the guid
\* is counted as already placed or becomes the last child of target, and no
\* object is made; with no such node one viewpoint with the entry's name, guid
\* and payload is made and becomes the last child of target.
PoolEntryPlaced(r, q, src, root, target) ==
    LET E == WithGuid(r.ns, root, src.guid)
        k == Len(r.ns) + 1
    IN  IF E # {}
        THEN /\ Len(q.ns) = Len(r.ns)
             /\ \E e \in E :
                    \/ r.ns[e].parent = target /\ q = [r EXCEPT !.already = @ + 1]
                    \/ /\ r.ns[e].parent # target
                       /\ q.ns[e].parent = target
                       /\ q.ns[target].children = Append(r.ns[target].children, e)
                       /\ q.moved = r.moved + 1
                       /\ q.already = r.already
        ELSE /\ Len(q.ns) = k
             /\ q.ns[k].name = src.name
             /\ q.ns[k].guid = src.guid
             /\ q.ns[k].xml_content = src.xml_content
             /\ ~q.ns[k].is_folder
             /\ q.ns[k].children = <<>>
             /\ q.ns[k].parent = target
             /\ q.ns[target].children = Append(r.ns[target].children, k)
             /\ \A n \in 1..Len(r.ns) : n # target => q.ns[n] = r.ns[n]
             /\ q.moved = r.moved + 1
             /\ q.already = r.already

\* C11, for every state, target folder and token that matches no viewpoint of
\* the tree and some pool entries: each matched entry, in turn, is handled as
\* PoolEntryPlaced says, and that is all bulk_move_points does.
PoolBranchPlacesEachEntry ==
    LET live == Live
        pool == source_views_by_guid
    IN  \A token \in Tokens, target \in ComboFolders(live, root_folder) :
            LET key == Lower(token)
                found_src == IndexGet(pool, AsSeq([j \in 1..Len(pool) |-> j]), 1, key)
                r0 == [ns |-> live, moved |-> 0, already |-> 0, missing |-> <<>>]
                upto(n) == BulkPoolLoop(r0, pool, root_folder, SubSeq(found_src, 1, n), 1, target)
                done == bulk_move_points(live, pool, root_folder, <<token>>, target)
            IN  (IndexGet(live, iter_views(live, root_folder), 1, key) = <<>> /\ found_src # <<>>)
                    => /\ \A n \in 1..Len(found_src) :
                              PoolEntryPlaced(upto(n - 1), upto(n), pool[found_src[n]],
                                              root_folder, target)
                       /\ done.ns = upto(Len(found_src)).ns
                       /\ done.moved = upto(Len(found_src)).moved
                       /\ done.already = upto(Len(found_src)).already
                       /\ done.missing = <<>>

\* C11: in bulk_move, a token that matches no tree viewpoint and some pool
\* entries relocates, for each matched entry, the tree node that has the
\* entry's guid under the target (or counts it as already placed) without
\* making a node, or else appends one new viewpoint with the entry's name,
\* guid and payload under the target and counts it as moved; the pool stays
\* as it is.
C11_PoolBranchRelocatesOrClones ==
    /\ []PoolBranchPlacesEachEntry
    /\ [][last'.op = "bulk" => source_views_by_guid' = source_views_by_guid]_vars

\* A bulk move has just made two viewpoints from two pool entries.
C11_Witness ==
    /\ last.op = "bulk"
    /\ last.moved = 2
    /\ Len(nodes) = 3
    /\ \A n \in 2..3 :
          /\ nodes[n].parent = root_folder
          /\ nodes[n].source_file = <<>>
          /\ \E j \in 1..Len(source_views_by_guid) :
                /\ source_views_by_guid[j].guid = nodes[n].guid
                /\ source_views_by_guid[j].name = nodes[n].name
                /\ source_views_by_guid[j].xml_content = nodes[n].xml_content
    /\ nodes[2].guid # nodes[3].guid

\* The letters the name indexes split a name at.
IsDelim(c) == c \in {"_", "-", ".", " "}

\* The token is, letter case aside, the whole name or one of the fragments the
\* name falls into at its delimiters.
Matches(token, name) ==
    LET key == Lower(token)
        s == Lower(name)
    IN  \/ key = s
        \/ /\ key # <<>>
           /\ \E i \in 1..Len(s), j \in 1..Len(s) :
                 /\ i <= j
                 /\ SubSeq(s, i, j) = key
                 /\ \A m \in i..j : ~IsDelim(s[m])
                 /\ i = 1 \/ IsDelim(s[i - 1])
                 /\ j = Len(s) \/ IsDelim(s[j + 1])

\* The tree viewpoints and the pool entries a token matches.
TreeMatches(ns, root, token) == {v \in Range(iter_views(ns, root)) : Matches(token, ns[v].name)}

PoolMatches(pool, token) == {j \in 1..Len(pool) : Matches(token, pool[j].name)}

Unmatched(ns, pool, root, token) ==
    TreeMatches(ns, root, token) = {} /\ PoolMatches(pool, token) = {}

RECURSIVE MatchCount(_, _, _, _)
\* The matches of a token list: for each token the tree viewpoints it matches
\* or, when there are none, the pool entries it matches.
MatchCount(ns, pool, root, tokens) ==
    IF tokens = <<>> THEN 0
    ELSE (IF TreeMatches(ns, root, tokens[1]) # {}
          THEN Cardinality(TreeMatches(ns, root, tokens[1]))
          ELSE Cardinality(PoolMatches(pool, tokens[1])))
         + MatchCount(ns, pool, root, Tail(tokens))

\* The numbers of one bulk move agree with what it did to the arena ns.
BulkResultConsistent(ns, pool, root, tokens, target) ==
    LET r == bulk_move_points(ns, pool, root, tokens, target)
        matched == SelectSeq(tokens, LAMBDA t : ~Unmatched(ns, pool, root, t))
        placed == {n \in 1..Len(r.ns) :
                      r.ns[n].parent = target /\ (n > Len(ns) \/ ns[n].parent # target)}
    IN  /\ r.missing = SelectSeq(tokens, LAMBDA t : Unmatched(ns, pool, root, t))
        /\ r.ns = bulk_move_points(ns, pool, root, matched, target).ns
        /\ r.moved = Cardinality(placed)
        /\ r.moved + r.already = MatchCount(ns, pool, root, tokens)
        /\ r.before = _count_views(ns, target)
        /\ r.after # Raised
        /\ r.after = _count_views(r.ns, target)

\* C12: the result of bulk_move agrees with the change of state: the not-found
\* list is the tokens, in input order, that match no tree viewpoint and no
\* pool entry, and they change nothing; moved is the number of nodes put
\* under the target, already-placed the number of matches left in place;
\* before and after are the target's viewpoint counts before the first and
\* after the last token.
C12_BulkResultMatchesChange ==
    LET live == Live
    IN  \A tokens \in MatchTokenLists, target \in ComboFolders(live, root_folder) :
            BulkResultConsistent(live, source_views_by_guid, root_folder, tokens, target)

\* C13: search never changes the model: whatever the token list (empty, all
\* found, some not found), the tree (nodes, parents, order of children,
\* names, guids, payloads) and the source pool are after search_points what
\* they were before it.
C13_SearchChangesNothing ==
    [][last'.op = "search"
        => /\ root_folder' = root_folder
           /\ Collected(nodes', root_folder') = Collected(nodes, root_folder)
           /\ source_views_by_guid' = source_views_by_guid]_vars

\* A search has just reported a token as not found, on a state that has
\* viewpoints in the tree and in the pool.
C13_Witness ==
    /\ last.op = "search"
    /\ last.shown = "not_found"
    /\ last.missing # <<>>
    /\ iter_views(nodes, root_folder) # <<>>
    /\ source_views_by_guid # <<>>

\* C14: search and bulk_move match alike: on every state, for every token
\* list and every target folder, the tokens search reports as not found are
\* the tokens bulk_move reports as not found, in the same order, and search
\* shows the all-found text exactly when bulk_move's list is empty.
C14_SearchAndBulkMoveMatchAlike ==
    LET live == Live
        pool == source_views_by_guid
    IN  \A tokens \in MatchTokenLists, target \in ComboFolders(live, root_folder) :
            LET found == search_points(live, pool, root_folder, tokens)
                moved == bulk_move_points(live, pool, root_folder, tokens, target)
            IN  /\ found.not_found = moved.missing
                /\ found.shown = "all_found" <=> moved.missing = <<>>

\* A search has just found one of its two tokens and not the other, and a
\* bulk move of the token not found would report it too.
C14_Witness ==
    /\ last.op = "search"
    /\ last.shown = "not_found"
    /\ Len(last.missing) = 1
    /\ iter_views(nodes, root_folder) # <<>>
    /\ source_views_by_guid # <<>>
    /\ \A target \in ComboFolders(nodes, root_folder) :
          bulk_move_points(nodes, source_views_by_guid, root_folder, last.missing, target).missing
              = last.missing

\* The name of the example, with X, Y, Z for the three capital letters.
ExampleName == <<"X", "Y", "Z", "_", "2", "1", "3">>

\* Whether the name indexes of bulk_move list a viewpoint of that name under
\* the token, and whether search finds the token for it.
IndexMatches(token, name) == IndexEntries(name, Lower(token), 1) # <<>>

SearchMatches(token, name) ==
    Lower(token) \in SearchNames(<<[name |-> name]>>, <<1>>, 1)

\* C15: a token matches a viewpoint, letter case aside, exactly when the
\* lowercased token is the lowercased whole name or one of the fragments the
\* lowercased name falls into at underscore, hyphen, period and blank: for
\* the name of the example the tokens 213, the three letters and the whole
\* name match, and 21, which is no whole fragment, does not. This is so in
\* the name indexes of bulk_move and of search, for tree and pool.
C15_TokenMatchesNameOrFragment ==
    LET live == Live
        pool == source_views_by_guid
        views == iter_views(live, root_folder)
    IN  /\ \A token \in MatchTokens :
              /\ \A v \in Range(views) :
                    /\ Contains(IndexGet(live, views, 1, Lower(token)), v)
                            <=> Matches(token, live[v].name)
                    /\ SearchMatches(token, live[v].name) <=> Matches(token, live[v].name)
              /\ \A j \in 1..Len(pool) :
                    /\ Contains(IndexGet(pool, AsSeq([i \in 1..Len(pool) |-> i]), 1, Lower(token)), j)
                            <=> Matches(token, pool[j].name)
                    /\ SearchMatches(token, pool[j].name) <=> Matches(token, pool[j].name)
              /\ search_points(live, pool, root_folder, <<token>>).not_found = <<>>
                    <=> \/ \E v \in Range(views) : Matches(token, live[v].name)
                        \/ \E j \in 1..Len(pool) : Matches(token, pool[j].name)
        /\ IndexMatches(<<"2", "1", "3">>, ExampleName)
        /\ IndexMatches(<<"X", "Y", "Z">>, ExampleName)
        /\ IndexMatches(<<"x", "y", "z">>, ExampleName)
        /\ IndexMatches(ExampleName, ExampleName)
        /\ ~IndexMatches(<<"2", "1">>, ExampleName)
        /\ SearchMatches(<<"2", "1", "3">>, ExampleName)
        /\ SearchMatches(<<"X", "Y", "Z">>, ExampleName)
        /\ ~SearchMatches(<<"2", "1">>, ExampleName)

\* A bulk move of the tokens 213 and 21 has just moved the viewpoint of the
\* example, the only one there is, and reported 21 as not found.
C15_Witness ==
    /\ last.op = "bulk"
    /\ last.moved = 1
    /\ last.already = 0
    /\ last.missing = << <<"2", "1">> >>
    /\ source_views_by_guid = <<>>
    /\ \E n \in Attached(nodes, root_folder) :
          /\ nodes[n].name = ExampleName
          /\ nodes[n].parent # None
          /\ nodes[nodes[n].parent].name # <<"F">>

\* The viewpoints and the folders among the children of a folder, in order.
ViewsIn(ns, folder) == SelectSeq(ns[folder].children, LAMBDA c : ~ns[c].is_folder)

FoldersIn(ns, folder) == SelectSeq(ns[folder].children, LAMBDA c : ns[c].is_folder)

NamesOf(ns, s) == AsSeq([i \in 1..Len(s) |-> ns[s[i]].name])

\* Node a is strictly before node b in the order of the mode: by the key of
\* alternating text and digit runs of the name (ascending or descending), or
\* by the lowercased guid.
ModeBefore(ns, mode, a, b) ==
    LET ka == NaturalParts(ns[a].name, 1, <<>>, FALSE)
        kb == NaturalParts(ns[b].name, 1, <<>>, FALSE)
    IN  CASE mode = "nat_asc" -> KeyLess(ka, kb)
          [] mode = "nat_desc" -> KeyLess(kb, ka)
          [] OTHER -> StrLess(Lower(ns[a].guid), Lower(ns[b].guid))

\* The nodes of s stand in the order of the mode.
InModeOrder(ns, mode, s) ==
    \A i, j \in 1..Len(s) : i < j => ~ModeBefore(ns, mode, s[j], s[i])

\* The natural keys of two names exist and have, place by place, elements of
\* the same kind.
KeysComparable(n1, n2) ==
    /\ ~NaturalKeyRaises(n1)
    /\ ~NaturalKeyRaises(n2)
    /\ \A i \in 1..Len(_natural_key(n1)) :
          i <= Len(_natural_key(n2)) => _natural_key(n1)[i].isnum = _natural_key(n2)[i].isnum

\* C16: sorting a folder in natural order puts its viewpoints in the order of
\* the key that splits a name into alternating text and digit runs, digit
\* runs compared as integers and text runs without regard to letter case
\* (x2, x10, X1 become X1, x2, x10); the descending mode gives the reverse
\* order of the keys; the keys of any two names can be compared.
C16_NaturalOrderSort ==
    LET live == Live
    IN  \A folder \in ComboFolders(live, root_folder) :
            /\ \A mode \in {"nat_asc", "nat_desc"} :
                  LET after == sort_folder(live, folder, mode)
                  IN  InModeOrder(after, mode, ViewsIn(after, folder))
            /\ \A a, b \in Range(live[folder].children) :
                  KeysComparable(live[a].name, live[b].name)
            /\ NamesOf(live, ViewsIn(live, folder)) = << <<"x", "2">>, <<"x", "1", "0">>, <<"X", "1">> >>
                  => LET asc == sort_folder(live, folder, "nat_asc")
                         desc == sort_folder(live, folder, "nat_desc")
                     IN  /\ NamesOf(asc, ViewsIn(asc, folder))
                               = << <<"X", "1">>, <<"x", "2">>, <<"x", "1", "0">> >>
                         /\ NamesOf(desc, ViewsIn(desc, folder))
                               = << <<"x", "1", "0">>, <<"x", "2">>, <<"X", "1">> >>

\* One parent's part of a sort of the selected viewpoints: before and after
\* are the parent's children, S the selected viewpoints among them.
SelectedSortedInPlace(ns, mode, before, after, S) ==
    /\ Len(after) = Len(before)
    /\ Range(after) = Range(before)
    /\ \A i \in 1..Len(before) : before[i] \notin S => after[i] = before[i]
    /\ {i \in 1..Len(after) : after[i] \in S} = {i \in 1..Len(before) : before[i] \in S}
    /\ InModeOrder(ns, mode, SelectSeq(after, LAMBDA c : c \in S))

\* C17: a sort of selected viewpoints leaves every unselected sibling at its
\* index, keeps the set of indexes the selected ones hold, puts the selected
\* ones into those slots in the order asked for and permutes the children,
\* for each parent of a selected viewpoint on its own; children A, B, C, D
\* with B and D selected, B before D in natural order, become A, D, C, B in
\* the descending mode.
C17_SelectedSortKeepsTheOthers ==
    LET live == Live
    IN  \A sel \in Selections(live, root_folder), mode \in SortModes :
            LET after == sort_selected_points(live, sel, mode)
                views == {m \in Range(sel) : ~live[m].is_folder /\ live[m].parent # None}
            IN  /\ \A p \in {live[m].parent : m \in views} :
                      SelectedSortedInPlace(live, mode, live[p].children, after[p].children,
                                            {m \in views : live[m].parent = p})
                /\ \A p \in 1..Len(live) :
                      LET c == live[p].children
                      IN  (/\ Len(c) = 4
                           /\ views = {c[2], c[4]}
                           /\ mode = "nat_desc"
                           /\ ModeBefore(live, "nat_asc", c[2], c[4]))
                              => after[p].children = <<c[1], c[4], c[3], c[2]>>

\* The folders of s stand together and the viewpoints of s stand together.
KindsInBlocks(ns, s) ==
    \A i, j, k \in 1..Len(s) :
        (i < j /\ j < k /\ ns[s[i]].is_folder = ns[s[k]].is_folder)
            => ns[s[j]].is_folder = ns[s[i]].is_folder

\* C18: after sort_folder in any mode (natural ascending, natural descending,
\* by guid) the children of the folder are a permutation of the children
\* before it in which the folders form one block and the viewpoints another,
\* each block in the order of the mode's key.
C18_SortFolderKeepsKindsApart ==
    LET live == Live
    IN  \A folder \in ComboFolders(live, root_folder), mode \in SortModes :
            LET after == sort_folder(live, folder, mode)
            IN  /\ Len(after[folder].children) = Len(live[folder].children)
                /\ Range(after[folder].children) = Range(live[folder].children)
                /\ KindsInBlocks(after, after[folder].children)
                /\ InModeOrder(after, mode, FoldersIn(after, folder))
                /\ InModeOrder(after, mode, ViewsIn(after, folder))

RECURSIVE ViewElementsAmong(_)
\* The number of view elements among the written elements els and inside
\* them, at any depth.
ViewElementsAmong(els) ==
    IF els = <<>> THEN 0
    ELSE (IF els[1].tag = "view" THEN 1 ELSE ViewElementsAmong(els[1].kids))
         + ViewElementsAmong(Tail(els))

\* The number of viewpoint nodes anywhere below a folder.
ViewpointsBelow(ns, folder) ==
    Cardinality({v \in Range(Subtree(ns, folder)) : ~ns[v].is_folder})

RECURSIVE FoldersAnnotated(_, _, _)
\* The elements els were written for the nodes cs, one for one, and every
\* folder among them, at any depth, has a folder element named by the
\* folder's name and " (N)", N being the viewpoints below the folder and the
\* view elements inside the element.
FoldersAnnotated(ns, cs, els) ==
    /\ Len(els) = Len(cs)
    /\ \A i \in 1..Len(cs) :
          ns[cs[i]].is_folder
              => LET N == ViewpointsBelow(ns, cs[i])
                 IN  /\ els[i].tag = "viewfolder"
                     /\ els[i].name = ns[cs[i]].name \o <<" ", "(">> \o Digits(N) \o <<")">>
                     /\ ViewElementsAmong(els[i].kids) = N
                     /\ FoldersAnnotated(ns, ns[cs[i]].children, els[i].kids)

\* C19: every folder element an export writes is named by the folder's
\* current name followed by " (N)", N being the number of viewpoint nodes
\* anywhere below the folder at the time of the export (0 when there is
\* none), and N is the number of view elements written inside that element.
C19_ExportAnnotatesFolderCounts ==
    LET live == Live
    IN  /\ FoldersAnnotated(live, live[root_folder].children,
                            _create_export_xml(live, root_folder))
        /\ (last.op = "export" /\ last.files = 1)
              => FoldersAnnotated(nodes, nodes[root_folder].children, last.out)

\* An export has just written a folder renamed to f with three viewpoints
\* two levels below the folder that holds it: both are annotated with 3.
C19_Witness ==
    /\ last.op = "export"
    /\ last.files = 1
    /\ \E i \in 1..Len(last.out) :
          /\ last.out[i].tag = "viewfolder"
          /\ last.out[i].name = <<"f", " ", "(", "3", ")">>
          /\ Len(last.out[i].kids) = 1
          /\ last.out[i].kids[1].name = <<"f", " ", "(", "3", ")">>
          /\ Len(last.out[i].kids[1].kids) = 3
    /\ \E n \in Attached(nodes, root_folder) : nodes[n].guid = <<"A">> /\ nodes[n].name = <<"f">>

\* The retained payload cannot be parsed back into an element: it is empty,
\* or text follows the element in it.
Unparseable(payload) == payload = <<>> \/ payload[1].tail # ""

RECURSIVE NodesExported(_, _, _)
\* The elements els were written for the nodes cs, one for one and in order,
\* at every depth: a viewpoint has a view element with its name and guid,
\* and with what its payload holds unless the payload cannot be parsed.
NodesExported(ns, cs, els) ==
    /\ Len(els) = Len(cs)
    /\ \A i \in 1..Len(cs) :
          IF ns[cs[i]].is_folder
          THEN /\ els[i].tag = "viewfolder"
               /\ els[i].guid = ns[cs[i]].guid
               /\ NodesExported(ns, ns[cs[i]].children, els[i].kids)
          ELSE /\ els[i].tag = "view"
               /\ els[i].name = ns[cs[i]].name
               /\ els[i].guid = ns[cs[i]].guid
               /\ els[i].kids = <<>>
               /\ els[i].body = IF Unparseable(ns[cs[i]].xml_content) THEN ""
                                ELSE ns[cs[i]].xml_content[1].body

RECURSIVE ViewElements(_)
\* The view elements among the elements els and inside them, depth-first.
ViewElements(els) ==
    IF els = <<>> THEN <<>>
    ELSE (IF els[1].tag = "view" THEN <<els[1]>> ELSE ViewElements(els[1].kids))
         \o ViewElements(Tail(els))

\* The view elements of the files a session can import.
ImportedViews ==
    UNION {Range(ViewElements(Files[k].elems)) : k \in {i \in 1..Len(Files) : ~IsBadFile(Files[i])}}

\* The payload is what one imported view element held: its attributes, the
\* rest of it and what followed it.
PayloadAsImported(payload) ==
    /\ Len(payload) = 1
    /\ \E el \in ImportedViews :
          /\ payload[1].name = el.name
          /\ payload[1].guid = el.guid
          /\ payload[1].body = el.body
          /\ payload[1].tail = el.tail

\* The view elements an export of the tree writes stand for the viewpoints of
\* the tree, in depth-first order, and each holds, name and guid aside, what
\* the imported element of its viewpoint held.
ExportGivesBackImport(ns, root) ==
    LET views == iter_views(ns, root)
        written == ViewElements(_create_export_xml(ns, root))
    IN  /\ Len(written) = Len(views)
        /\ \A i \in 1..Len(views) :
              /\ PayloadAsImported(ns[views[i]].xml_content)
              /\ written[i].body = ns[views[i]].xml_content[1].body

\* C21: whatever was done since the import (drop from the pool, bulk move,
\* move, sort, rename), the view element an export writes for a viewpoint
\* holds, name and guid aside, what the imported element held; and no handler
\* other than clear-all changes the payload of a node or of a pool entry.
C21_ExportGivesBackPayload ==
    /\ []ExportGivesBackImport(Live, root_folder)
    /\ [](\A j \in 1..Len(source_views_by_guid) :
              PayloadAsImported(source_views_by_guid[j].xml_content))
    /\ [][last'.op # "clear"
            => /\ \A n \in 1..Len(Live) : nodes'[n].xml_content = Live[n].xml_content
               /\ \A j \in 1..Len(source_views_by_guid) :
                     source_views_by_guid'[j].xml_content
                         = source_views_by_guid[j].xml_content]_vars

RECURSIVE AllElements(_)
\* The elements among els and inside them, depth-first.
AllElements(els) ==
    IF els = <<>> THEN <<>>
    ELSE <<els[1]>> \o AllElements(els[1].kids) \o AllElements(Tail(els))

\* The elements els, written for the tree below root, name every viewpoint
\* and give its guid as the node has them now, and none of them stands for
\* the root folder: the outermost ones stand for the root folder's children.
WrittenFromNodes(ns, root, els) ==
    LET views == iter_views(ns, root)
        written == ViewElements(els)
    IN  /\ Len(written) = Len(views)
        /\ \A i \in 1..Len(views) :
              /\ written[i].name = ns[views[i]].name
              /\ written[i].guid = ns[views[i]].guid
        /\ Len(els) = Len(ns[root].children)
        /\ \A i \in 1..Len(els) : els[i].guid = ns[ns[root].children[i]].guid
        /\ Len(AllElements(els)) = Len(Subtree(ns, root)) - 1
        /\ \A i \in 1..Len(AllElements(els)) : AllElements(els)[i].guid # ns[root].guid

\* C22: the name and guid of every view element an export writes are those
\* the tree node has at the time, whatever its payload says; a rename of a
\* tree viewpoint leaves the pool as it is, so the pool entry of that guid
\* keeps the name it was read with; the root folder gets no element, only
\* its children do.
C22_ExportNamesNodesAsTheyAre ==
    /\ [](/\ WrittenFromNodes(Live, root_folder, _create_export_xml(Live, root_folder))
          /\ (last.op = "export" /\ last.files = 1)
                => WrittenFromNodes(nodes, root_folder, last.out)
          /\ \A j \in 1..Len(source_views_by_guid) :
                source_views_by_guid[j].name = source_views_by_guid[j].xml_content[1].name)
    /\ [][last'.op = "rename" => source_views_by_guid' = source_views_by_guid]_vars

\* An export has just written the viewpoint x under the name f it was renamed
\* to; its payload and the pool entry x still have the name a.
C22_Witness ==
    /\ last.op = "export"
    /\ last.files = 1
    /\ \E i \in 1..Len(last.out) :
          /\ last.out[i].tag = "view"
          /\ last.out[i].name = <<"f">>
          /\ last.out[i].guid = <<"x">>
          /\ last.out[i].body = "e1"
    /\ \E n \in Attached(nodes, root_folder) :
          /\ nodes[n].guid = <<"x">>
          /\ nodes[n].name = <<"f">>
          /\ nodes[n].xml_content[1].name = <<"a">>
    /\ \E j \in 1..Len(source_views_by_guid) :
          /\ source_views_by_guid[j].guid = <<"x">>
          /\ source_views_by_guid[j].name = <<"a">>

\* What the session holds: the tree below the root folder and the source pool.
Session(ns, root, pool) == [tree |-> Collected(ns, root), pool |-> pool]

\* The session of a window just opened: a root folder with no children and no
\* parent, an empty pool.
NewSession ==
    [tree |-> <<[name |-> <<"R">>, guid |-> <<"#", "n", "1">>, xml_content |-> <<>>,
                 is_folder |-> TRUE, source_file |-> <<>>, children |-> <<>>, parent |-> None]>>,
     pool |-> <<>>]

\* What one more handler can leave of a new session: an import, a new folder,
\* a rename, or a handler that finds nothing to act on.
AfterOneOnNew ==
    LET new == <<_create_root_folder>>
    IN  {LET st == load_xml_files([ns |-> new, pool |-> <<>>], 1, PathsOf(batch), 1)
         IN  Session(st.ns, 1, st.pool) : batch \in Batches}
        \cup {Session(create_folder(new, 1, first, name), 1, <<>>) :
                  first \in {None, 1}, name \in DialogNames}
        \cup {Session(rename_selected(new, 1, name, TRUE), 1, <<>>) : name \in DialogNames}
        \cup {NewSession}

\* The pool entry is the first view element with its guid among the elements
\* of the container of the file it names as its source.
FirstInItsFile(entry) ==
    \E k \in 1..Len(Files) :
        /\ ~IsBadFile(Files[k])
        /\ Files[k].name = entry.source_file
        /\ \E i \in 1..Len(Files[k].elems) :
              /\ Files[k].elems[i].tag = "view"
              /\ Files[k].elems[i].guid = entry.guid
              /\ \A m \in 1..(i - 1) :
                    Files[k].elems[m].tag = "view" => Files[k].elems[m].guid # entry.guid
              /\ Files[k].elems[i].name = entry.name
              /\ Files[k].elems[i].body = entry.xml_content[1].body

\* C23: a clear-all leaves a new session, a root folder with no children and
\* no parent and an empty pool, whatever the state before it; a handler run
\* after it leaves what it leaves of a new session; a guid imported before
\* the clear-all is imported again, and the pool entry is its new occurrence.
C23_ClearAllGivesNewSession ==
    /\ [][last'.op = "clear"
            => /\ Session(nodes', root_folder', source_views_by_guid') = NewSession
               /\ Len(nodes') = 1]_vars
    /\ [](steps = 3 => Session(nodes, root_folder, source_views_by_guid) \in AfterOneOnNew)
    /\ []((steps = 3 /\ last.op = "import")
            => \A j \in 1..Len(source_views_by_guid) :
                  FirstInItsFile(source_views_by_guid[j]))

\* File 1 was imported, everything was cleared and file 2 was imported: the
\* pool entry x is the viewpoint b of file 2, not the viewpoint a of file 1.
C23_Witness ==
    /\ steps = 3
    /\ last.op = "import"
    /\ last.files = 1
    /\ Len(source_views_by_guid) = 2
    /\ source_views_by_guid[1].guid = <<"x">>
    /\ source_views_by_guid[1].name = <<"b">>
    /\ source_views_by_guid[1].xml_content[1].body = "p3"
    /\ source_views_by_guid[1].source_file = <<"f", "2">>

\* Viewpoints have no children, in the tree, among the objects a handler has
\* just detached and in the pool, and whatever has a parent has a folder as
\* its parent.
OnlyFoldersHaveChildren ==
    /\ \A n \in 1..Len(nodes) :
          /\ ~nodes[n].is_folder => nodes[n].children = <<>>
          /\ nodes[n].parent # None => nodes[nodes[n].parent].is_folder
    /\ \A j \in 1..Len(source_views_by_guid) :
          /\ ~source_views_by_guid[j].is_folder
          /\ source_views_by_guid[j].children = <<>>
          /\ source_views_by_guid[j].parent = None

\* C24: every viewpoint, in the tree and in the pool, has no children, and a
\* node stays of the kind it was made: import, create folder, move, drop from
\* the pool and bulk move attach nodes under folders only, whatever was
\* dropped on or selected (a viewpoint, a folder, nothing).
C24_ViewpointsHaveNoChildren ==
    /\ []OnlyFoldersHaveChildren
    /\ [][last'.op # "clear"
            => /\ Len(nodes') >= Len(Live)
               /\ \A n \in 1..Len(Live) : nodes'[n].is_folder = Live[n].is_folder
               /\ \A j \in 1..Len(source_views_by_guid) :
                     source_views_by_guid'[j].is_folder = source_views_by_guid[j].is_folder]_vars

\* A drop from the pool has just put a viewpoint under the root folder, last
\* after a viewpoint and a folder that an import had put there: dropped on
\* that viewpoint, it went to the viewpoint's parent.
C24_Witness ==
    /\ last.op = "drop"
    /\ last.moved = 1
    /\ Len(nodes[root_folder].children) = 3
    /\ ~nodes[nodes[root_folder].children[1]].is_folder
    /\ nodes[nodes[root_folder].children[2]].is_folder
    /\ ~nodes[nodes[root_folder].children[3]].is_folder
    /\ nodes[nodes[root_folder].children[3]].guid \in PoolGuids
    /\ nodes[nodes[root_folder].children[1]].children = <<>>

RECURSIVE ParentChain(_, _, _)
\* The node v and the nodes its parent references lead to, hops bounding the
\* walk.
ParentChain(ns, v, hops) ==
    IF v = None \/ hops = 0 THEN {}
    ELSE {v} \cup ParentChain(ns, ns[v].parent, hops - 1)

\* The viewpoints of the subtree of n: n itself or below n, and no folder.
ViewpointsUnder(ns, n) ==
    {v \in 1..Len(ns) : ~ns[v].is_folder /\ n \in ParentChain(ns, v, Len(ns))}

\* Viewpoint u is met before viewpoint v on a depth-first walk: some node has
\* u under an earlier child than v.
MetBefore(ns, u, v) ==
    \E p \in 1..Len(ns) : \E i, j \in 1..Len(ns[p].children) :
        /\ i < j
        /\ ns[p].children[i] \in ParentChain(ns, u, Len(ns))
        /\ ns[p].children[j] \in ParentChain(ns, v, Len(ns))

\* C25: the viewpoint count of a viewpoint is 1 and that of a folder is the
\* number of viewpoints anywhere below it, 0 when there is none; for every
\* node of the tree it is the number of nodes iter_views yields, and these
\* are exactly the viewpoints of the node's subtree, each once, in
\* depth-first order.
C25_CountIsNumberOfViewsListed ==
    LET live == Live
    IN  \A n \in 1..Len(live) :
            LET listed == iter_views(live, n)
            IN  /\ ~live[n].is_folder => _count_views(live, n) = 1
                /\ _count_views(live, n) = Cardinality(ViewpointsUnder(live, n))
                /\ _count_views(live, n) = Len(listed)
                /\ Range(listed) = ViewpointsUnder(live, n)
                /\ \A i, j \in 1..Len(listed) :
                      i < j => listed[i] # listed[j] /\ MetBefore(live, listed[i], listed[j])

\* A bulk move has just moved the two viewpoints of folder F into the empty
\* folder B: the count of B was 0 and is 2, that of F is 0, and the root
\* folder lists the two viewpoints, which are two levels below it.
C25_Witness ==
    /\ last.op = "bulk"
    /\ last.before = 0
    /\ last.after = 2
    /\ Len(iter_views(nodes, root_folder)) = 2
    /\ \E B, F \in Attached(nodes, root_folder) :
          /\ nodes[B].guid = <<"#", "1">>
          /\ nodes[F].guid = <<"#", "2">>
          /\ _count_views(nodes, B) = 2
          /\ Len(nodes[B].children) = 2
          /\ _count_views(nodes, F) = 0
          /\ iter_views(nodes, F) = <<>>

\* What a node is, apart from where it stands: name, guid, kind, payload and
\* source file.
Identity(node) ==
    [name |-> node.name, guid |-> node.guid, is_folder |-> node.is_folder,
     xml_content |-> node.xml_content, source_file |-> node.source_file]

\* The arena b has the objects of the arena a, each what it was, and no other.
SameObjects(a, b) ==
    /\ Len(b) = Len(a)
    /\ \A n \in 1..Len(a) : Identity(b[n]) = Identity(a[n])

\* The arena b differs from the arena a in the name of node m alone.
OnlyRenamed(a, b, m) ==
    /\ Len(b) = Len(a)
    /\ \A n \in 1..Len(a) : n # m => b[n] = a[n]
    /\ b[m].name # <<>>
    /\ b[m] = [a[m] EXCEPT !.name = b[m].name]

\* add_child, remove_child, a bulk move of tokens that match viewpoints of
\* the tree, and a rename, applied to the arena ns.
RearrangeOnly(ns, pool, root) ==
    /\ \A p, c \in 1..Len(ns) :
          /\ SameObjects(ns, add_child(ns, p, c))
          /\ SameObjects(ns, remove_child(ns, p, c))
    /\ \A token \in Tokens, target \in ComboFolders(ns, root) :
          \/ IndexGet(ns, iter_views(ns, root), 1, Lower(token)) = <<>>
          \/ SameObjects(ns, bulk_move_points(ns, pool, root, <<token>>, target).ns)
    /\ \A m \in Attached(ns, root) :
          /\ rename_selected(ns, m, <<>>, TRUE) = ns
          /\ \A name \in DialogNames :
                /\ rename_selected(ns, m, name, FALSE) = ns
                /\ OnlyRenamed(ns, rename_selected(ns, m, name, TRUE), m)

\* C26: add_child, remove_child, a move, both sorts, a delete and a bulk move
\* that relocates change no node's guid, name, kind or payload and make no
\* node; a bulk move leaves every node it found what it was and makes no
\* node but copies of source viewpoints; a rename
\* changes the name of the one selected node and nothing else, and nothing
\* at all for an empty new name.
C26_StructuralOperationsOnlyRearrange ==
    /\ []RearrangeOnly(Live, source_views_by_guid, root_folder)
    /\ [][/\ last'.op \in {"move", "sort_folder", "sort_selected", "delete"}
                => SameObjects(Live, nodes')
          /\ last'.op = "bulk"
                => /\ Len(nodes') >= Len(Live)
                   /\ \A n \in 1..Len(Live) : Identity(nodes'[n]) = Identity(Live[n])
                   /\ \A n \in (Len(Live) + 1)..Len(nodes') :
                         \E i \in 1..Len(source_views_by_guid) :
                            LET src == source_views_by_guid[i]
                            IN  /\ ~nodes'[n].is_folder
                                /\ nodes'[n].name = src.name
                                /\ nodes'[n].guid = src.guid
                                /\ nodes'[n].xml_content = src.xml_content
          /\ last'.op = "rename"
                => \/ nodes' = Live
                   \/ \E m \in Attached(Live, root_folder) : OnlyRenamed(Live, nodes', m)]_vars

\* A rename has just given a viewpoint of the tree the name f; its guid and
\* its payload, which holds the name it was read with, are as they were.
C26_Witness ==
    /\ last.op = "rename"
    /\ \E n \in Attached(nodes, root_folder) :
          /\ ~nodes[n].is_folder
          /\ nodes[n].name = <<"f">>
          /\ nodes[n].xml_content[1].name # <<"f">>
          /\ nodes[n].guid = nodes[n].xml_content[1].guid

\* In the list s every folder stands before every viewpoint.
FoldersBeforeViews(ns, s) ==
    \A i, j \in 1..Len(s) : (ns[s[i]].is_folder /\ ~ns[s[j]].is_folder) => i < j

\* In the list s every viewpoint stands before every folder.
ViewsBeforeFolders(ns, s) ==
    \A i, j \in 1..Len(s) : (~ns[s[i]].is_folder /\ ns[s[j]].is_folder) => i < j

\* C27: sort_folder puts the block of folders and the block of viewpoints in
\* the same order in every mode: the block that comes first after a natural
\* ascending sort of a folder comes first after a natural descending sort
\* and after a sort by guid of the same folder too. Stated for folders whose
\* children all have a natural key.
C27_BlockOrderSameInEveryMode ==
    LET live == Live
    IN  \A folder \in ComboFolders(live, root_folder) :
            LET asc == sort_folder(live, folder, "nat_asc")[folder].children
                desc == sort_folder(live, folder, "nat_desc")[folder].children
                guid == sort_folder(live, folder, "guid")[folder].children
            IN  ~sort_folder_raises(live, folder, "nat_asc")
                    => /\ FoldersBeforeViews(live, asc)
                            => FoldersBeforeViews(live, desc) /\ FoldersBeforeViews(live, guid)
                       /\ ViewsBeforeFolders(live, asc)
                            => ViewsBeforeFolders(live, desc) /\ ViewsBeforeFolders(live, guid)

\* A drop of the one pool entry g on the node t (or on nothing): skipped
\* while the tree has a node with the guid g, and otherwise one new viewpoint
\* with the entry's name, guid and payload.
DropPlacesOnce(ns, pool, root, g, t) ==
    LET r == on_drop_from_left(ns, pool, root, <<g>>, t)
        k == Len(ns) + 1
    IN  IF WithGuid(ns, root, g) # {}
        THEN r = [ns |-> ns, added |-> 0]
        ELSE /\ r.added = 1
             /\ Len(r.ns) = k
             /\ k \in Attached(r.ns, root)
             /\ \E j \in 1..Len(pool) :
                   /\ pool[j].guid = g
                   /\ r.ns[k].guid = g
                   /\ r.ns[k].name = pool[j].name
                   /\ r.ns[k].xml_content = pool[j].xml_content

\* No guid of the pool is the guid of two nodes of the tree.
PoolViewpointsOnceInTree ==
    \A g \in PoolGuids : Cardinality(WithGuid(nodes, root_folder, g)) <= 1

\* C28: the pool only grows until the next clear-all: a drop from the pool, a
\* bulk move, a move, a delete, a rename and a sort leave every pool entry as
\* it is, so a viewpoint deleted from the tree can be dropped from the pool
\* again; a drop of an entry whose guid the tree holds is skipped, and so no
\* pool viewpoint stands at two places of the tree.
C28_PoolKeepsEntriesTreeHoldsEachOnce ==
    /\ [][last'.op \in {"drop", "bulk", "move", "delete", "rename", "sort_folder", "sort_selected"}
            => source_views_by_guid' = source_views_by_guid]_vars
    /\ [][last'.op # "clear"
            => /\ Len(source_views_by_guid') >= Len(source_views_by_guid)
               /\ \A j \in 1..Len(source_views_by_guid) :
                     source_views_by_guid'[j] = source_views_by_guid[j]]_vars
    /\ [](\A g \in PoolGuids, t \in Attached(Live, root_folder) \cup {None} :
              DropPlacesOnce(Live, source_views_by_guid, root_folder, g, t))
    /\ []PoolViewpointsOnceInTree

\* Node v stands below the folder, as its child or deeper.
UnderFolder(ns, v, folder) == folder \in ParentChain(ns, ns[v].parent, Len(ns))

\* Node v stands in b where it stood in a: same parent, same index among the
\* parent's children.
SamePlace(a, b, v) ==
    /\ b[v].parent = a[v].parent
    /\ \E i \in 1..Len(a[a[v].parent].children) :
          /\ a[a[v].parent].children[i] = v
          /\ i <= Len(b[a[v].parent].children)
          /\ b[a[v].parent].children[i] = v

\* C29 as stated: a bulk move leaves every matched tree viewpoint that is
\* under the target, as its child or in a sub-folder of it, where it is and
\* counts it as already placed, and the target's viewpoint count is the same
\* after a token whose matches are all under the target.
C29_MatchUnderTargetStaysInPlace ==
    LET live == Live
    IN  \A token \in MatchTokens, target \in ComboFolders(live, root_folder) :
            LET r == bulk_move_points(live, source_views_by_guid, root_folder, <<token>>, target)
                M == TreeMatches(live, root_folder, token)
            IN  /\ \A v \in M :
                      UnderFolder(live, v, target)
                          => /\ SamePlace(live, r.ns, v)
                             /\ r.already >= 1
                /\ (M # {} /\ \A v \in M : UnderFolder(live, v, target)) => r.after = r.before

\* C29, amended: a bulk move leaves a matched tree viewpoint that is a child
\* of the target where it is, same parent and same index, and counts it as
\* already placed; every other matched tree viewpoint, one in a sub-folder
\* of the target included, is taken from its parent, appended to the
\* target's children and counted as moved; the target's viewpoint count
\* grows by the matched viewpoints that were not under the target, so a
\* match that was under it, as a child or deeper, leaves the count as it is.
C29_ChildStaysAndDeeperMatchMovesUp ==
    LET live == Live
    IN  \A token \in MatchTokens, target \in ComboFolders(live, root_folder) :
            LET r == bulk_move_points(live, source_views_by_guid, root_folder, <<token>>, target)
                M == TreeMatches(live, root_folder, token)
                D == {v \in M : live[v].parent = target}
                S == M \ D
                was == live[target].children
                is == r.ns[target].children
            IN  M # {}
                    => /\ Len(r.ns) = Len(live)
                       /\ \A v \in D : SamePlace(live, r.ns, v)
                       /\ r.already >= Cardinality(D)
                       /\ Len(is) = Len(was) + Cardinality(S)
                       /\ SubSeq(is, 1, Len(was)) = was
                       /\ Range(SubSeq(is, Len(was) + 1, Len(is))) = S
                       /\ \A v \in S :
                             /\ r.ns[v].parent = target
                             /\ ~Contains(r.ns[live[v].parent].children, v)
                       /\ r.moved = Cardinality(S)
                       /\ r.before = Cardinality(ViewpointsUnder(live, target))
                       /\ r.after = r.before
                                      + Cardinality({v \in S : ~UnderFolder(live, v, target)})

\* A bulk move into the root folder has just matched one viewpoint that stood
\* in a sub-folder of the root folder: it is now the root folder's last
\* child, counted as moved and not as already placed, and the root folder's
\* viewpoint count is what it was.
C29_Witness ==
    /\ last.op = "bulk"
    /\ last.moved = 1
    /\ last.already = 0
    /\ last.missing = <<>>
    /\ last.before = last.after
    /\ last.before >= 1
    /\ source_views_by_guid = <<>>
    /\ nodes[root_folder].children # <<>>
    /\ LET v == nodes[root_folder].children[Len(nodes[root_folder].children)]
       IN  /\ ~nodes[v].is_folder
           /\ nodes[v].source_file = <<"f", "1">>

\* What a new window shows after importing the file that export_xml writes
\* from the tree ns.
Reimported(ns, root) ==
    load_xml_files([ns |-> <<_create_root_folder>>, pool |-> <<>>], 1,
                   <<ExportedFile(export_xml(ns, root))>>, 1).ns

\* A name that ends neither in a blank nor in a number in parentheses.
PlainEnd(name) ==
    /\ name = <<>> \/ ~IsSpace(name[Len(name)])
    /\ SubCounter(name) = name

\* Export, import in a new window and one clean-up give every folder with
\* such a name its name again.
CleanUndoesExport ==
    LET live == Live
        back == clean_folder_names(Reimported(live, root_folder), 1)
    IN  \A n \in 2..Len(live) :
            live[n].is_folder /\ PlainEnd(live[n].name)
                => /\ n <= Len(back)
                   /\ back[n].is_folder
                   /\ back[n].guid = live[n].guid
                   /\ back[n].name = live[n].name

\* The clean-up changes nothing but names of folders other than the root.
CleanKeepsTheRest ==
    LET live == Live
        c == clean_folder_names(live, root_folder)
    IN  /\ Len(c) = Len(live)
        /\ c[root_folder] = live[root_folder]
        /\ \A n \in 1..Len(live) :
               /\ [c[n] EXCEPT !.name = live[n].name] = live[n]
               /\ ~live[n].is_folder => c[n].name = live[n].name

\* A second clean-up changes nothing.
CleanTwiceIsCleanOnce ==
    LET c == clean_folder_names(Live, root_folder)
    IN  clean_folder_names(c, root_folder) = c

\* C30: a folder whose name ends neither in a blank nor in a number in
\* parentheses has its name again after export, import of the exported file
\* and one clean_folder_names; clean_folder_names changes no name of the root
\* or of a viewpoint, no guid and nothing of the structure; a second
\* clean_folder_names changes nothing.
C30_CleanUndoesExportAndIsIdempotent ==
    /\ CleanUndoesExport
    /\ CleanKeepsTheRest
    /\ CleanTwiceIsCleanOnce

====
